---- MODULE Spec2Model ----
(***************************************************************************)
(* A model of rasn: a strict DER tag-length-value decoder (reader,         *)
(* identifier and length decoding, typed value decoding, the schema         *)
(* parser) and the X.509 decoders built on it.  Byte windows are sequences  *)
(* of numbers in 0..255; a function that advances a reader is an operator   *)
(* returning the result together with the reader it leaves behind.          *)
(***************************************************************************)
EXTENDS Integers, Sequences, FiniteSets, TLC

VARIABLES
    reader,   \* the window of the Reader (Parser.reader.bytes); under the tree walker,
              \* the windows of the parsers of the active parse_all calls, innermost first
    last,     \* the last call made on it: operation, arguments, the window before, the result
    input,    \* the root input of a whole-input decoder (certificate, extension)
    pc,       \* position of the whole-input decoder
    out,      \* what the whole-input decoder has produced; under the schema parser, the
              \* bytes that were behind the element on which next() failed
    failed    \* history: Parser::next has yielded Some(Err(_)) on this parser

vars == <<reader, last, input, pc, out, failed>>

----------------------------------------------------------------------------
(* Bounds of the model *)

\* longest length-octet tail enumerated exhaustively after the first length byte
MaxTail == 5
\* longest parser window enumerated exhaustively over ParserBytes
MaxLen == 3

----------------------------------------------------------------------------
(* Results *)

Ok(v) == [tag |-> "Ok", value |-> v]
Err(e) == [tag |-> "Err", error |-> e]
None == [some |-> FALSE]
Some(v) == [some |-> TRUE, value |-> v]

IsOk(r) == r.tag = "Ok"
IsErr(r) == r.tag = "Err"

\* ASNError variants (types.rs): the payload-free ones and the ones with payload
EndOfStream == [kind |-> "EndOfStream"]
UnsupportedId(id) == [kind |-> "UnsupportedId", id |-> id]
UnexpectedType(expected, actual) ==
    [kind |-> "UnexpectedType", expected |-> expected, actual |-> actual]

\* A value that is used more than once is bound by applying a function to it,
\* [x \in Any |-> e][v]: e with x standing for the value of v, v evaluated once
\* (a let that is not re-evaluated at every use of the name).

SeqsUpTo(S, n) == UNION {[1..k -> S] : k \in 0..n}

Drop(s, n) == SubSeq(s, n + 1, Len(s))

IsPrefix(p, s) == Len(p) <= Len(s) /\ SubSeq(s, 1, Len(p)) = p

----------------------------------------------------------------------------
(* Reader (reader.rs) *)

\* Reader::is_empty
is_empty(r) == Len(r) = 0

\* a peek that moves past the byte it returns
peek_byte_advancing(r) ==
    IF Len(r) = 0 THEN [res |-> Err(EndOfStream), reader |-> r]
    ELSE [res |-> Ok(r[1]), reader |-> Drop(r, 1)]

\* Reader::peek_byte
peek_byte(r) ==
    IF Len(r) = 0 THEN [res |-> Err(EndOfStream), reader |-> r]
    ELSE [res |-> Ok(r[1]), reader |-> r]

\* a read that returns the first byte and leaves it in the window
read_byte_staying(r) ==
    IF Len(r) = 0 THEN [res |-> Err(EndOfStream), reader |-> r]
    ELSE [res |-> Ok(r[1]), reader |-> r]

\* Reader::read_byte
read_byte(r) ==
    IF Len(r) = 0 THEN [res |-> Err(EndOfStream), reader |-> r]
    ELSE [res |-> Ok(r[1]), reader |-> Drop(r, 1)]

\* a take that hands out count bytes and skips one more
take_skipping(r, count) ==
    IF count > Len(r) THEN [res |-> Err(EndOfStream), reader |-> r]
    ELSE [res |-> Ok(SubSeq(r, 1, count)), reader |-> Drop(r, count + 1)]

\* Reader::take
take(r, count) ==
    IF count > Len(r) THEN [res |-> Err(EndOfStream), reader |-> r]
    ELSE [res |-> Ok(SubSeq(r, 1, count)), reader |-> Drop(r, count)]

\* a clear that leaves the window as it is
clear_nothing(r) == r

\* Reader::clear
clear(r) == <<>>

----------------------------------------------------------------------------
(* Identifier (types.rs) *)

\* Identifier::from
Identifier_from(byte) ==
    [class |-> CASE byte \div 64 = 0 -> "Universal"
                 [] byte \div 64 = 1 -> "Application"
                 [] byte \div 64 = 2 -> "ContextSpecific"
                 [] OTHER -> "Private",
     pc |-> IF (byte \div 32) % 2 # 0 THEN "Constructed" ELSE "Primitive",
     tag |-> byte % 32]

\* read_type taking every constructed identifier outside the universal class for
\* an explicit tag
read_type_any_class(id) ==
    IF id.class = "Universal" /\ id.pc = "Primitive" THEN
        CASE id.tag = 1 -> "Boolean"
          [] id.tag = 2 -> "Integer"
          [] id.tag = 3 -> "BitString"
          [] id.tag = 4 -> "OctetString"
          [] id.tag = 5 -> "Null"
          [] id.tag = 6 -> "ObjectIdentifier"
          [] id.tag = 12 -> "UTF8String"
          [] id.tag = 19 -> "PrintableString"
          [] id.tag = 22 -> "IA5String"
          [] id.tag = 23 -> "UTCTime"
          [] OTHER -> "None"
    ELSE IF id.class = "Universal" /\ id.pc = "Constructed" THEN
        CASE id.tag = 16 -> "Sequence"
          [] id.tag = 17 -> "Set"
          [] OTHER -> "None"
    ELSE IF id.pc = "Constructed" THEN "ExplicitTag"
    ELSE "None"

\* read_type; "None" stands for Option::None
read_type(id) ==
    IF id.class = "Universal" /\ id.pc = "Primitive" THEN
        CASE id.tag = 1 -> "Boolean"
          [] id.tag = 2 -> "Integer"
          [] id.tag = 3 -> "BitString"
          [] id.tag = 4 -> "OctetString"
          [] id.tag = 5 -> "Null"
          [] id.tag = 6 -> "ObjectIdentifier"
          [] id.tag = 12 -> "UTF8String"
          [] id.tag = 19 -> "PrintableString"
          [] id.tag = 22 -> "IA5String"
          [] id.tag = 23 -> "UTCTime"
          [] OTHER -> "None"
    ELSE IF id.class = "Universal" /\ id.pc = "Constructed" THEN
        CASE id.tag = 16 -> "Sequence"
          [] id.tag = 17 -> "Set"
          [] OTHER -> "None"
    ELSE IF id.class = "ContextSpecific" /\ id.pc = "Constructed" THEN "ExplicitTag"
    ELSE "None"

----------------------------------------------------------------------------
(* Length decoding (parser.rs) *)

\* the loop of parse_length with the shift left out
RECURSIVE read_length_bytes_unshifted(_, _, _)
read_length_bytes_unshifted(r, count, value) ==
    IF count = 0 THEN [res |-> Ok(value), reader |-> r]
    ELSE LET b == read_byte(r) IN
         IF IsErr(b.res) THEN [res |-> Err(EndOfStream), reader |-> b.reader]
         ELSE read_length_bytes_unshifted(b.reader, count - 1, b.res.value)

\* the loop of parse_length: count more bytes shifted into value
RECURSIVE read_length_bytes(_, _, _)
read_length_bytes(r, count, value) ==
    IF count = 0 THEN [res |-> Ok(value), reader |-> r]
    ELSE LET b == read_byte(r) IN
         IF IsErr(b.res) THEN [res |-> Err(EndOfStream), reader |-> b.reader]
         ELSE read_length_bytes(b.reader, count - 1, value * 256 + b.res.value)

\* parse_length after the first byte, the byte count never checked against 1..4
parse_length_form_any_count(first_byte, r) ==
    LET top_bit == first_byte \div 128
        count_of_bytes == first_byte % 128
    IN
    IF top_bit = 0 THEN [res |-> Ok(count_of_bytes), reader |-> r]
    ELSE IF count_of_bytes = 0 THEN
        [res |-> Err([kind |-> "UnsupportedIndefiniteLength"]), reader |-> r]
    ELSE IF count_of_bytes = 127 THEN
        [res |-> Err([kind |-> "ReservedLengthValue"]), reader |-> r]
    ELSE
    [v \in Any |->
        IF IsErr(v.res) THEN v
        ELSE IF v.res.value = 0 THEN
            [res |-> Err([kind |-> "UnsupportedIndefiniteLength"]), reader |-> v.reader]
        ELSE IF v.res.value < 128 THEN
            [res |-> Err([kind |-> "BadLengthEncoding", value |-> v.res.value]),
             reader |-> v.reader]
        ELSE v
    ][read_length_bytes(r, IF count_of_bytes > 4 THEN 4 ELSE count_of_bytes, 0)]

\* parse_length after the first byte, with its top bit clear or set
parse_length_form(first_byte, r) ==
    LET top_bit == first_byte \div 128
        count_of_bytes == first_byte % 128
    IN
    IF top_bit = 0 THEN [res |-> Ok(count_of_bytes), reader |-> r]
    ELSE IF count_of_bytes = 0 THEN
        [res |-> Err([kind |-> "UnsupportedIndefiniteLength"]), reader |-> r]
    ELSE IF count_of_bytes = 127 THEN
        [res |-> Err([kind |-> "ReservedLengthValue"]), reader |-> r]
    ELSE IF count_of_bytes < 1 \/ count_of_bytes > 4 THEN
        [res |-> Err([kind |-> "UnsupportedLengthByteCount", count |-> count_of_bytes]),
         reader |-> r]
    ELSE
    [v \in Any |->
        IF IsErr(v.res) THEN v
        ELSE IF v.res.value = 0 THEN
            [res |-> Err([kind |-> "UnsupportedIndefiniteLength"]), reader |-> v.reader]
        ELSE IF v.res.value < 128 THEN
            [res |-> Err([kind |-> "BadLengthEncoding", value |-> v.res.value]),
             reader |-> v.reader]
        ELSE v
    ][read_length_bytes(r, count_of_bytes, 0)]

\* parse_length
parse_length(r) ==
    LET first == read_byte(r) IN
    IF IsErr(first.res) THEN [res |-> Err(EndOfStream), reader |-> first.reader]
    ELSE parse_length_form(first.res.value, first.reader)

----------------------------------------------------------------------------
(* Value decoding (parser.rs) *)

\* a parse_seq that takes empty contents
parse_seq_accepting_empty(contents) == Ok([id |-> "Sequence", bytes |-> contents])

\* parse_seq
parse_seq(contents) ==
    IF Len(contents) = 0 THEN Err([kind |-> "EmptySequence"])
    ELSE Ok([id |-> "Sequence", bytes |-> contents])

\* parse_set
parse_set(contents) ==
    IF Len(contents) = 0 THEN Err([kind |-> "EmptySet"])
    ELSE Ok([id |-> "Set", bytes |-> contents])

\* parse_null
parse_null(contents) ==
    IF Len(contents) = 0 THEN Ok([id |-> "Null"])
    ELSE Err([kind |-> "NullWithNonEmptyContents", len |-> Len(contents)])

\* parse_boolean
parse_boolean(contents) ==
    IF contents = <<255>> THEN Ok([id |-> "Boolean", value |-> TRUE])
    ELSE IF contents = <<0>> THEN Ok([id |-> "Boolean", value |-> FALSE])
    ELSE IF Len(contents) = 1 THEN Err([kind |-> "BadBooleanValue", value |-> contents[1]])
    ELSE Err([kind |-> "BadBooleanLength", len |-> Len(contents)])

\* parse_integer
parse_integer(contents) ==
    IF Len(contents) = 0 THEN Err([kind |-> "ZeroLengthInteger"])
    ELSE Ok([id |-> "Integer", bytes |-> contents])

\* the length of the UTF-8 sequence a lead byte opens, 0 for a byte that opens
\* none (a continuation byte, the overlong leads 192 and 193, 245 and above)
utf8_char_width(b) ==
    IF b < 128 THEN 1
    ELSE IF b \in 194..223 THEN 2
    ELSE IF b \in 224..239 THEN 3
    ELSE IF b \in 240..244 THEN 4
    ELSE 0

\* the range of the byte after lead byte b: narrower than 128..191 where that
\* excludes overlong forms, surrogates and what is above U+10FFFF
utf8_second_byte(b) ==
    IF b = 224 THEN 160..191
    ELSE IF b = 237 THEN 128..159
    ELSE IF b = 240 THEN 144..191
    ELSE IF b = 244 THEN 128..143
    ELSE 128..191

\* std::str::from_utf8, as a validity test: well-formed UTF-8 only.  The first
\* byte opens a sequence, and every byte that is not a continuation byte opens a
\* sequence of its width, made of continuation bytes and followed by the end or
\* by a byte that opens the next.
valid_utf8(s) ==
    /\ s # <<>> => s[1] \notin 128..191
    /\ \A i \in 1..Len(s) :
          s[i] \notin 128..191 =>
              LET w == utf8_char_width(s[i]) IN
              /\ w > 0
              /\ i + w - 1 <= Len(s)
              /\ \A k \in 1..(w - 1) :
                    s[i + k] \in (IF k = 1 THEN utf8_second_byte(s[i]) ELSE 128..191)
              /\ i + w <= Len(s) => s[i + w] \notin 128..191

\* parse_string; create is the ASNTypeId of the variant built, the str is kept as its bytes
parse_string(contents, create) ==
    IF valid_utf8(contents) THEN Ok([id |-> create, bytes |-> contents])
    ELSE Err([kind |-> "BadUTF8"])

IsDigits(s, from, to) == \A i \in from..to : s[i] \in 48..57
TwoDigits(s, i) == (s[i] - 48) * 10 + (s[i + 1] - 48)

IsLeap(y) == (y % 4 = 0 /\ y % 100 # 0) \/ y % 400 = 0
DaysInMonth(y, m) ==
    IF m = 2 THEN (IF IsLeap(y) THEN 29 ELSE 28)
    ELSE IF m \in {4, 6, 9, 11} THEN 30 ELSE 31

\* the leap years among the years 1..y
LeapsUpTo(y) == y \div 4 - y \div 100 + y \div 400

\* days from 1970-01-01 to the first day of year y (y >= 1970)
DaysBeforeYear(y) == 365 * (y - 1970) + LeapsUpTo(y - 1) - LeapsUpTo(1969)

\* days from the first day of year y to the first day of its month m
DaysBeforeMonth(y, m) ==
    <<0, 31, 59, 90, 120, 151, 181, 212, 243, 273, 304, 334>>[m]
        + (IF m > 2 /\ IsLeap(y) THEN 1 ELSE 0)

\* try_parse_all_variants: the four formats UTC_WITH_SECONDS, UTC_WITHOUT_SECONDS,
\* TZ_WITH_SECONDS, TZ_WITHOUT_SECONDS, fields of fixed width; a two-digit year
\* below 70 is in 20xx, otherwise in 19xx.  The instant is minutes since the
\* UNIX epoch (offset applied) and the seconds of that minute; None when no
\* format matches.
try_parse_all_variants(s) ==
    LET n == Len(s)
        zulu == n \in {11, 13} /\ s[n] = 90 /\ IsDigits(s, 1, n - 1)
        zoned == n \in {15, 17} /\ s[n - 4] \in {43, 45} /\ IsDigits(s, 1, n - 5)
                    /\ IsDigits(s, n - 3, n)
    IN
    IF ~(zulu \/ zoned) THEN None
    ELSE
    LET yy == TwoDigits(s, 1)
        year == IF yy < 70 THEN 2000 + yy ELSE 1900 + yy
        month == TwoDigits(s, 3)
        day == TwoDigits(s, 5)
        hour == TwoDigits(s, 7)
        minute == TwoDigits(s, 9)
        with_seconds == n \in {13, 17}
        second == IF with_seconds THEN TwoDigits(s, 11) ELSE 0
        off_h == IF zoned THEN TwoDigits(s, n - 3) ELSE 0
        off_m == IF zoned THEN TwoDigits(s, n - 1) ELSE 0
        offset == (IF zoned /\ s[n - 4] = 45 THEN -1 ELSE 1) * (off_h * 60 + off_m)
    IN
    IF /\ month \in 1..12
       /\ day \in 1..DaysInMonth(year, month)
       /\ hour <= 23 /\ minute <= 59 /\ second <= 59
       /\ off_m <= 59
    THEN Some([minutes |-> ((DaysBeforeYear(year) + DaysBeforeMonth(year, month) + day - 1)
                                   * 24 + hour) * 60 + minute - offset,
               seconds |-> second])
    ELSE None

\* parse_utc_time
parse_utc_time(contents) ==
    IF ~valid_utf8(contents) THEN Err([kind |-> "BadUTF8"])
    ELSE [time \in Any |->
             IF time.some THEN Ok([id |-> "UTCTime", value |-> time.value])
             ELSE Err([kind |-> "BadUTCTime"])
         ][try_parse_all_variants(contents)]

\* parse_bit_string
parse_bit_string(contents) ==
    IF Len(contents) = 0 THEN Err(EndOfStream)
    ELSE IF contents[1] > 7 THEN
        Err([kind |-> "BitStringUnusedBitsTooLarge", unused_bits |-> contents[1]])
    ELSE Ok([id |-> "BitString", unused_bits |-> contents[1], bytes |-> Drop(contents, 1)])

\* a parse_one that gives up after three bytes
RECURSIVE parse_one_three_bytes(_, _, _)
parse_one_three_bytes(r, sum, count) ==
    IF count > 2 THEN [res |-> Err([kind |-> "BadOidLength"]), reader |-> r]
    ELSE LET b == read_byte(r) IN
         IF IsErr(b.res) THEN [res |-> Err(EndOfStream), reader |-> b.reader]
         ELSE LET has_next == b.res.value \div 128 # 0
                  value == b.res.value % 128
              IN IF has_next THEN parse_one_three_bytes(b.reader, sum * 128 + value, count + 1)
                 ELSE [res |-> Ok(sum * 128 + value), reader |-> b.reader]

\* parse_object_identifier::parse_one, its loop carried by sum and count
RECURSIVE parse_one(_, _, _)
parse_one(r, sum, count) ==
    IF count > 3 THEN [res |-> Err([kind |-> "BadOidLength"]), reader |-> r]
    ELSE LET b == read_byte(r) IN
         IF IsErr(b.res) THEN [res |-> Err(EndOfStream), reader |-> b.reader]
         ELSE LET has_next == b.res.value \div 128 # 0
                  value == b.res.value % 128
              IN IF has_next THEN parse_one(b.reader, sum * 128 + value, count + 1)
                 ELSE [res |-> Ok(sum * 128 + value), reader |-> b.reader]

\* the while loop of parse_object_identifier
RECURSIVE parse_oid_items(_, _)
parse_oid_items(r, items) ==
    IF is_empty(r) THEN Ok([id |-> "ObjectIdentifier", items |-> items])
    ELSE LET one == parse_one(r, 0, 0) IN
         IF IsErr(one.res) THEN one.res
         ELSE parse_oid_items(one.reader, Append(items, one.res.value))

\* parse_object_identifier
parse_object_identifier(contents) ==
    LET first == read_byte(contents) IN
    IF IsErr(first.res) THEN Err(EndOfStream)
    ELSE parse_oid_items(first.reader, <<first.res.value \div 40, first.res.value % 40>>)

\* parse_one_type::get_contents
get_contents(r) ==
    [length \in Any |->
        IF IsErr(length.res) THEN length
        ELSE take(length.reader, length.res.value)
    ][parse_length(r)]

\* the match of parse_one_type on the type read_type found
parse_contents(asn_type, id, contents) ==
    CASE asn_type = "Boolean" -> parse_boolean(contents)
      [] asn_type = "Integer" -> parse_integer(contents)
      [] asn_type = "BitString" -> parse_bit_string(contents)
      [] asn_type = "OctetString" -> Ok([id |-> "OctetString", bytes |-> contents])
      [] asn_type = "Null" -> parse_null(contents)
      [] asn_type = "ObjectIdentifier" -> parse_object_identifier(contents)
      [] asn_type = "UTF8String" -> parse_string(contents, "UTF8String")
      [] asn_type = "PrintableString" -> parse_string(contents, "PrintableString")
      [] asn_type = "IA5String" -> parse_string(contents, "IA5String")
      [] asn_type = "UTCTime" -> parse_utc_time(contents)
      [] asn_type = "Sequence" -> parse_seq(contents)
      [] asn_type = "Set" -> parse_set(contents)
      [] asn_type = "ExplicitTag" ->
            Ok([id |-> "ExplicitTag", value |-> id.tag, contents |-> contents])

\* parse_one_type; contents is the window get_contents returned, <<>> when it
\* was not reached
parse_one_type(r) ==
    LET first == read_byte(r) IN
    IF IsErr(first.res) THEN [res |-> Err(EndOfStream), reader |-> first.reader, contents |-> <<>>]
    ELSE
    LET id == Identifier_from(first.res.value)
        asn_type == read_type(id)
    IN
    IF asn_type = "None" THEN
        [res |-> Err(UnsupportedId(id)), reader |-> first.reader, contents |-> <<>>]
    ELSE
    [c \in Any |->
        IF IsErr(c.res) THEN [res |-> c.res, reader |-> c.reader, contents |-> <<>>]
        ELSE [res |-> parse_contents(asn_type, id, c.res.value), reader |-> c.reader,
              contents |-> c.res.value]
    ][get_contents(first.reader)]

----------------------------------------------------------------------------
(* ASNInteger (types.rs) *)

\* i32 from the low 32 bits x (0 <= x < 2^32, held as a high and a low half)
AsI32(hi, lo) == IF hi >= 32768 THEN (hi - 65536) * 65536 + lo ELSE hi * 65536 + lo

\* the loop of as_i32: acc <<= 8; acc |= byte, on an i32 held as two 16-bit halves
RECURSIVE shift_in(_, _, _)
shift_in(bytes, hi, lo) ==
    IF bytes = <<>> THEN AsI32(hi, lo)
    ELSE shift_in(Drop(bytes, 1), (hi * 256 + lo \div 256) % 65536,
                  (lo % 256) * 256 + bytes[1])

\* ASNInteger::VALID_I32_LENGTHS = 1usize..4usize, a Range that excludes its end
VALID_I32_LENGTHS == {n \in Nat : 1 <= n /\ n < 4}

\* ASNInteger::as_i32; "None" stands for Option::None
as_i32(bytes) ==
    IF Len(bytes) \notin VALID_I32_LENGTHS THEN None
    ELSE Some(shift_in(bytes, 0, 0))

----------------------------------------------------------------------------
(* Parser (parser.rs): every operation takes the reader and returns the     *)
(* result with the reader left behind.                                      *)

\* ASNNewType::get_value on a value of the right variant: the Item of the type
get_value(asn) ==
    CASE asn.id = "Boolean" -> asn.value
      [] asn.id = "Integer" -> [bytes |-> asn.bytes]
      [] asn.id = "BitString" -> [unused_bits |-> asn.unused_bits, bytes |-> asn.bytes]
      [] asn.id = "ObjectIdentifier" -> [items |-> asn.items]
      [] asn.id = "UTCTime" -> asn.value
      [] asn.id = "ExplicitTag" -> [value |-> asn.value, contents |-> asn.contents]
      [] OTHER -> asn.bytes

\* Iterator::next for Parser; [tag |-> "None"] stands for Option::None
Parser_next(r) ==
    IF is_empty(r) THEN [res |-> [tag |-> "None"], reader |-> r]
    ELSE [p \in Any |->
             IF IsErr(p.res) THEN [res |-> p.res, reader |-> clear(p.reader)]
             ELSE [res |-> p.res, reader |-> p.reader]
         ][parse_one_type(r)]

\* Parser::expect_any
expect_any(r) ==
    [n \in Any |->
        IF n.res.tag = "None" THEN [res |-> Err(EndOfStream), reader |-> n.reader] ELSE n
    ][Parser_next(r)]

\* Parser::expect::<T>
expect(r, T) ==
    [a \in Any |->
        IF IsErr(a.res) THEN a
        ELSE IF a.res.value.id = T THEN
            [res |-> Ok(get_value(a.res.value)), reader |-> a.reader]
        ELSE [res |-> Err(UnexpectedType(T, a.res.value.id)), reader |-> a.reader]
    ][expect_any(r)]

\* Parser::expect_or_end::<T>
expect_or_end(r, T) ==
    [e \in Any |->
        IF IsOk(e.res) THEN [res |-> Ok(Some(e.res.value)), reader |-> e.reader]
        ELSE IF e.res.error = EndOfStream THEN [res |-> Ok(None), reader |-> e.reader]
        ELSE e
    ][expect(r, T)]

\* Parser::expect_any_or_end
expect_any_or_end(r) ==
    [n \in Any |->
        IF n.res.tag = "None" THEN [res |-> Ok(None), reader |-> n.reader]
        ELSE IF IsOk(n.res) THEN [res |-> Ok(Some(n.res.value)), reader |-> n.reader]
        ELSE n
    ][Parser_next(r)]

\* Parser::expect_end
expect_end(r) ==
    [n \in Any |->
        IF n.res.tag = "None" THEN [res |-> Ok(<<>>), reader |-> n.reader]
        ELSE IF IsErr(n.res) THEN n
        ELSE [res |-> Err([kind |-> "ExpectedEnd", actual |-> n.res.value.id]),
              reader |-> n.reader]
    ][Parser_next(r)]

\* the Ok(Some(..)) that get_optional and get_optional_explicit_tag make of expect
some_expected(e) ==
    IF IsOk(e.res) THEN [res |-> Ok(Some(e.res.value)), reader |-> e.reader] ELSE e

\* Parser::get_optional::<T>
get_optional(r, T) ==
    IF is_empty(r) THEN [res |-> Ok(None), reader |-> r]
    ELSE
    LET peek == peek_byte(r)
        id == Identifier_from(peek.res.value)
    IN
    IF read_type(id) = "None" THEN [res |-> Err(UnsupportedId(id)), reader |-> peek.reader]
    ELSE IF read_type(id) = T THEN [e \in Any |-> some_expected(e)][expect(peek.reader, T)]
    ELSE [res |-> Ok(None), reader |-> peek.reader]

\* Parser::get_optional_or_default::<T>
get_optional_or_default(r, T, default) ==
    [g \in Any |->
        IF IsErr(g.res) THEN g
        ELSE IF g.res.value.some THEN [res |-> Ok(g.res.value.value), reader |-> g.reader]
        ELSE [res |-> Ok(default), reader |-> g.reader]
    ][get_optional(r, T)]

\* a get_optional_explicit_tag that takes an explicit tag of any number
get_optional_explicit_tag_any_number(r, tag) ==
    IF is_empty(r) THEN [res |-> Ok(None), reader |-> r]
    ELSE
    LET peek == peek_byte(r)
        id == Identifier_from(peek.res.value)
    IN
    IF read_type(id) = "None" THEN [res |-> Err(UnsupportedId(id)), reader |-> peek.reader]
    ELSE IF read_type(id) = "ExplicitTag" THEN
        [e \in Any |-> some_expected(e)][expect(peek.reader, "ExplicitTag")]
    ELSE [res |-> Ok(None), reader |-> peek.reader]

\* Parser::get_optional_explicit_tag
get_optional_explicit_tag(r, tag) ==
    IF is_empty(r) THEN [res |-> Ok(None), reader |-> r]
    ELSE
    LET peek == peek_byte(r)
        id == Identifier_from(peek.res.value)
    IN
    IF read_type(id) = "None" THEN [res |-> Err(UnsupportedId(id)), reader |-> peek.reader]
    ELSE IF read_type(id) = "ExplicitTag" /\ id.tag = tag THEN
        [e \in Any |-> some_expected(e)][expect(peek.reader, "ExplicitTag")]
    ELSE [res |-> Ok(None), reader |-> peek.reader]

\* the Some arm of get_explicitly_tagged_integer_or_default: the Integer inside
\* the tag's contents as an i32
tagged_integer(contents) ==
    [value \in Any |->
        IF IsErr(value.res) THEN value.res
        ELSE [x \in Any |->
                 IF x.some THEN Ok(x.value)
                 ELSE Err([kind |-> "IntegerTooLarge", len |-> Len(value.res.value.bytes)])
             ][as_i32(value.res.value.bytes)]
    ][expect(contents, "Integer")]

\* Parser::get_explicitly_tagged_integer_or_default
get_explicitly_tagged_integer_or_default(r, tag, default) ==
    [g \in Any |->
        IF IsErr(g.res) THEN g
        ELSE IF ~g.res.value.some THEN [res |-> Ok(default), reader |-> g.reader]
        ELSE [res |-> tagged_integer(g.res.value.value.contents), reader |-> g.reader]
    ][get_optional_explicit_tag(r, tag)]

\* expect_end after a step that succeeded with value: the value, or the error
then_expect_end(r, value) ==
    [end \in Any |->
        IF IsErr(end.res) THEN end.res ELSE Ok(value)
    ][expect_end(r)]

\* Parser::unwrap_outer_sequence: the result is the window of the new Parser
unwrap_outer_sequence(bytes) ==
    [e \in Any |->
        IF IsErr(e.res) THEN e.res ELSE then_expect_end(e.reader, e.res.value)
    ][expect(bytes, "Sequence")]

\* Parser::unwrap_outer_set
unwrap_outer_set(bytes) ==
    [e \in Any |->
        IF IsErr(e.res) THEN e.res ELSE then_expect_end(e.reader, e.res.value)
    ][expect(bytes, "Set")]

\* a parse_all that does not look at what the closure left
parse_all_unchecked(parsed) ==
    IF IsErr(parsed.res) THEN parsed.res ELSE Ok(parsed.res.value)

\* parse_all: parsed is what parse returned and left of the fresh Parser over the
\* input; then expect_end
parse_all(parsed) ==
    [value \in Any |->
        IF IsErr(value.res) THEN value.res ELSE then_expect_end(value.reader, value.res.value)
    ][parsed]

----------------------------------------------------------------------------
(* The length decoder on its own: parse_length called on a fresh Reader, as *)
(* the tests of parser.rs do, and called again on what it left.             *)

\* first length bytes: short forms, 0x80, long forms of 1..4 bytes, 0x85, 0xFE, 0xFF
LengthFirstBytes == {0, 1, 127, 128, 129, 130, 131, 132, 133, 254, 255}
\* the bytes that follow
LengthTailBytes == {0, 1, 128, 255}

\* A four-byte length is kept below 2^31, the largest number TLC can hold.
LengthWindows ==
    {<<>>} \cup
    {w \in {<<f>> \o t : f \in LengthFirstBytes, t \in SeqsUpTo(LengthTailBytes, MaxTail)} :
        w[1] = 132 /\ Len(w) >= 2 => w[2] < 128}

Idle == [op |-> "new"]

InitLength ==
    /\ reader \in LengthWindows
    /\ last = Idle
    /\ input = <<>>
    /\ pc = "idle"
    /\ out = <<>>
    /\ failed = FALSE

\* parse_length(&mut reader)
ParseLength ==
    /\ LET r == parse_length(reader) IN
       /\ reader' = r.reader
       /\ last' = [op |-> "parse_length", window |-> reader, res |-> r.res]
    /\ UNCHANGED <<input, pc, out, failed>>

NextLength == ParseLength

SpecLength == InitLength /\ [][NextLength]_vars

----------------------------------------------------------------------------
(* The reader driven call by call: input is the window the Reader was built *)
(* over, out the bytes its successful read_byte and take calls have         *)
(* returned, in call order.                                                  *)

\* longest window a Reader is built over
MaxReaderLen == 4

ReaderBytes == {0, 1, 255}

ReaderWindows == SeqsUpTo(ReaderBytes, MaxReaderLen)

\* the counts take is called with: up to one more than the longest window
TakeCounts == 0..(MaxReaderLen + 1)

\* Reader::new(bytes)
InitReader ==
    /\ input \in ReaderWindows
    /\ reader = input
    /\ last = Idle
    /\ pc = "idle"
    /\ out = <<>>
    /\ failed = FALSE

\* reader.peek_byte()
PeekByte ==
    /\ LET r == peek_byte(reader) IN
       /\ reader' = r.reader
       /\ last' = [op |-> "peek_byte", arg |-> 0, window |-> reader, res |-> r.res]
    /\ UNCHANGED <<input, pc, out, failed>>

\* reader.read_byte()
ReadByte ==
    /\ LET r == read_byte(reader) IN
       /\ reader' = r.reader
       /\ last' = [op |-> "read_byte", arg |-> 0, window |-> reader, res |-> r.res]
       /\ out' = IF IsOk(r.res) THEN Append(out, r.res.value) ELSE out
    /\ UNCHANGED <<input, pc, failed>>

\* reader.take(count)
Take ==
    \E count \in TakeCounts :
        /\ LET r == take(reader, count) IN
           /\ reader' = r.reader
           /\ last' = [op |-> "take", arg |-> count, window |-> reader, res |-> r.res]
           /\ out' = IF IsOk(r.res) THEN out \o r.res.value ELSE out
        /\ UNCHANGED <<input, pc, failed>>

NextReader ==
    \/ PeekByte
    \/ ReadByte
    \/ Take

SpecReader == InitReader /\ [][NextReader]_vars

\* the call last made asked for more bytes than the window held
Underflows ==
    IF last.op = "take" THEN last.arg > Len(last.window) ELSE last.window = <<>>

\* C14: after any sequence of peek_byte, read_byte and take calls on a Reader over a
\* window, the bytes the successful read_byte and take calls returned, in call order,
\* followed by the remainder are the window; a call that underflows returns EndOfStream
\* and leaves the reader as it was, and no other call fails.
C14_ReaderCursor ==
    /\ out \o reader = input
    /\ last.op \in {"peek_byte", "read_byte", "take"} =>
        /\ Underflows => last.res = Err(EndOfStream) /\ reader = last.window
        /\ ~Underflows => IsOk(last.res)

\* C14: a take underflows after bytes have been handed out and while bytes remain
C14_Witness ==
    /\ last.op = "take"
    /\ IsErr(last.res)
    /\ out # <<>>
    /\ reader # <<>>

----------------------------------------------------------------------------
(* Claims about the length decoder *)

\* the number a big-endian byte string denotes
RECURSIVE BigEndian(_)
BigEndian(s) == IF s = <<>> THEN 0 ELSE BigEndian(SubSeq(s, 1, Len(s) - 1)) * 256 + s[Len(s)]

RECURSIVE Pow256(_)
Pow256(n) == IF n = 0 THEN 1 ELSE 256 * Pow256(n - 1)

\* the number of bytes the minimal big-endian form of L takes (L >= 1)
BytesNeeded(L) == IF L < 256 THEN 1 ELSE IF L < 65536 THEN 2 ELSE IF L < 16777216 THEN 3 ELSE 4

\* the minimal DER encoding of the length L
EncodeLength(L) ==
    IF L < 128 THEN <<L>>
    ELSE LET n == BytesNeeded(L) IN
         <<128 + n>> \o [i \in 1..n |-> (L \div Pow256(n - i)) % 256]

\* the lengths whose minimal encoding the windows of LengthWindows start with
LengthSamples ==
    {0, 127} \cup
    {BigEndian(t) : t \in {u \in SeqsUpTo(LengthTailBytes, 4) :
                               Len(u) >= 1 /\ u[1] # 0 /\ (Len(u) = 4 => u[1] < 128)}}

EncodedSamples == {<<L, EncodeLength(L)>> : L \in LengthSamples}

\* C1: parse_length fails on every long-form input (first byte 0x81..0x84 followed
\* by its n length bytes) whose value is below 128 or whose first length byte is 0x00.
C1_NonMinimalRejected ==
    last.op = "parse_length" =>
        LET W == last.window IN
        (/\ Len(W) >= 1
         /\ W[1] \in 129..132
         /\ Len(W) >= 1 + (W[1] - 128)
         /\ (BigEndian(SubSeq(W, 2, 1 + (W[1] - 128))) < 128 \/ W[2] = 0))
        => IsErr(last.res)

\* C6: parse_length on the minimal encoding of L followed by any suffix returns L
\* and leaves exactly the suffix in the reader.
C6_LengthRoundTrip ==
    last.op = "parse_length" =>
        \A e \in EncodedSamples :
            IsPrefix(e[2], last.window) =>
                /\ last.res = Ok(e[1])
                /\ reader = Drop(last.window, Len(e[2]))

\* a long-form length of four bytes decoded and a suffix left behind
C6_Witness ==
    /\ last.op = "parse_length"
    /\ IsOk(last.res)
    /\ last.res.value >= 16777216
    /\ last.window = EncodeLength(last.res.value) \o reader
    /\ Len(reader) = 1

----------------------------------------------------------------------------
(* The schema parser: a Parser over a window, and every operation of its    *)
(* facade called on it in any order.                                        *)

\* identifier, length and content bytes of the windows enumerated exhaustively:
\* 0x00 0x01 0x02 0x03 0x30 0x81 0xA1 0xFF
ParserBytes == {0, 1, 2, 3, 48, 129, 161, 255}

\* every identifier byte, alone and before an empty and a one-byte value
IdWindows == {<<b>> \o t : b \in 0..255, t \in {<<>>, <<0>>, <<1, 0>>, <<1, 255>>}}

Fill(n) == [i \in 1..n |-> 65]

\* values whose length takes the long form (OCTET STRING, SEQUENCE), alone and
\* before a further value
LongWindows ==
    {<<b>> \o EncodeLength(n) \o Fill(n) \o t :
        b \in {4, 48}, n \in {128, 256}, t \in {<<>>, <<5, 0>>}}

\* explicit tags around one value, around two, and before a further value
ExplicitWindows ==
    {<<160 + t, Len(inner)>> \o inner \o rest :
        t \in {0, 1, 3},
        inner \in {<<2, 1, 0>>, <<2, 1, 2>>, <<2, 1, 255>>, <<2, 2, 1, 0>>, <<2, 3, 1, 0, 0>>,
                   <<2, 4, 0, 0, 0, 1>>, <<2, 5, 0, 0, 0, 0, 1>>, <<3, 2, 0, 128>>,
                   <<2, 1, 0, 2, 1, 0>>, <<2, 0>>},
        rest \in {<<>>, <<2, 1, 1>>} }

ParserWindows == SeqsUpTo(ParserBytes, MaxLen) \cup IdWindows \cup LongWindows \cup ExplicitWindows

\* the types T the generic operations are called with
TypeParams == {"Boolean", "Integer", "BitString", "Sequence", "ExplicitTag"}
\* the tag numbers get_optional_explicit_tag is called with
TagParams == {0, 1, 3}

InitParser ==
    /\ reader \in ParserWindows
    /\ last = Idle
    /\ input = <<>>
    /\ pc = "idle"
    /\ out = <<>>
    /\ failed = FALSE

\* what every operation of the facade does to the state: r is its outcome
Called(op, arg, r) ==
    /\ reader' = r.reader
    /\ last' = [op |-> op, arg |-> arg, window |-> reader, res |-> r.res]
    /\ UNCHANGED <<input, pc, out>>

\* parse_one_type(&mut reader), called on the reader directly
ParseOneType ==
    /\ LET r == parse_one_type(reader) IN
       /\ reader' = r.reader
       /\ last' = [op |-> "parse_one_type", arg |-> "", window |-> reader, res |-> r.res,
                   contents |-> r.contents]
    /\ UNCHANGED <<input, pc, out, failed>>

\* parser.next(); failed records that a call has yielded Some(Err(_)), and out the
\* bytes that were behind the failing element when it did
IterNext ==
    LET n == Parser_next(reader) IN
    /\ reader' = n.reader
    /\ last' = [op |-> "next", arg |-> "", window |-> reader, res |-> n.res]
    /\ failed' = (failed \/ IsErr(n.res))
    /\ out' = IF IsErr(n.res) THEN parse_one_type(reader).reader ELSE out
    /\ UNCHANGED <<input, pc>>

ExpectAny == Called("expect_any", "", expect_any(reader)) /\ UNCHANGED failed

ExpectAnyOrEnd == Called("expect_any_or_end", "", expect_any_or_end(reader)) /\ UNCHANGED failed

ExpectEnd == Called("expect_end", "", expect_end(reader)) /\ UNCHANGED failed

Expect == \E T \in TypeParams : Called("expect", T, expect(reader, T)) /\ UNCHANGED failed

ExpectOrEnd ==
    \E T \in TypeParams : Called("expect_or_end", T, expect_or_end(reader, T)) /\ UNCHANGED failed

GetOptional ==
    \E T \in TypeParams : Called("get_optional", T, get_optional(reader, T)) /\ UNCHANGED failed

GetOptionalOrDefault ==
    /\ Called("get_optional_or_default", "Boolean",
              get_optional_or_default(reader, "Boolean", FALSE))
    /\ UNCHANGED failed

GetOptionalExplicitTag ==
    \E n \in TagParams :
        /\ Called("get_optional_explicit_tag", n, get_optional_explicit_tag(reader, n))
        /\ UNCHANGED failed

GetExplicitlyTaggedIntegerOrDefault ==
    /\ Called("get_explicitly_tagged_integer_or_default", 0,
              get_explicitly_tagged_integer_or_default(reader, 0, 0))
    /\ UNCHANGED failed

NextParser ==
    \/ ParseOneType
    \/ IterNext
    \/ ExpectAny
    \/ ExpectAnyOrEnd
    \/ ExpectEnd
    \/ Expect
    \/ ExpectOrEnd
    \/ GetOptional
    \/ GetOptionalOrDefault
    \/ GetOptionalExplicitTag
    \/ GetExplicitlyTaggedIntegerOrDefault

SpecParser == InitParser /\ [][NextParser]_vars

----------------------------------------------------------------------------
(* Claims about the schema parser *)

\* C2: when get_optional::<T>() or get_optional_explicit_tag(n) returns None the
\* reader window is exactly what it was before the call.
C2_LookaheadPurity ==
    (/\ last.op \in {"get_optional", "get_optional_explicit_tag"}
     /\ last.res = Ok(None))
    => reader = last.window

\* get_optional_explicit_tag(n) has returned None on an explicit tag whose number
\* is not n, with further bytes behind it
C2_Witness ==
    /\ last.op = "get_optional_explicit_tag"
    /\ last.res = Ok(None)
    /\ Len(last.window) > 2
    /\ read_type(Identifier_from(last.window[1])) = "ExplicitTag"
    /\ Identifier_from(last.window[1]).tag # last.arg
    /\ reader = last.window

\* C3: once next() has yielded Some(Err(_)), every later next() yields None.
C3_NoneAfterError ==
    [][(failed /\ last'.op = "next") => last'.res.tag = "None"]_vars

\* next() has been called again after a next() that failed with bytes left
\* behind the failing element, and it has yielded None
C3_Witness ==
    /\ failed
    /\ out # <<>>
    /\ last.op = "next"
    /\ last.res.tag = "None"

\* the octets of the length field at the head of w, and the length they denote
LengthOctets(w) == IF w[1] < 128 THEN <<w[1]>> ELSE SubSeq(w, 1, 1 + (w[1] - 128))
LengthDenoted(w) == IF w[1] < 128 THEN w[1] ELSE BigEndian(Drop(LengthOctets(w), 1))

\* C5: whenever parse_one_type succeeds on a window W, W is one identifier byte,
\* the length octets, the contents window of the value and the reader's remainder,
\* in this order, and the contents window has exactly the decoded length.
C5_TlvRoundTrip ==
    (last.op = "parse_one_type" /\ IsOk(last.res)) =>
        LET W == last.window IN
        /\ Len(W) >= 2
        /\ W = <<W[1]>> \o LengthOctets(Drop(W, 1)) \o last.contents \o reader
        /\ Len(last.contents) = LengthDenoted(Drop(W, 1))
        /\ last.res.value.id \in {"Sequence", "Set", "OctetString", "Integer"}
               => last.res.value.bytes = last.contents
        /\ last.res.value.id = "ExplicitTag" => last.res.value.contents = last.contents

\* parse_one_type has succeeded on a value with a two-byte long-form length and a
\* further value behind it
C5_Witness ==
    /\ last.op = "parse_one_type"
    /\ IsOk(last.res)
    /\ last.window[2] = 130
    /\ Len(last.contents) = 256
    /\ reader = <<5, 0>>

\* C7: every BitString the decoder returns has unused_bits in 0..7, and at least
\* one bit octet whenever unused_bits > 0.
C7_BitStringRange ==
    (/\ last.op \in {"parse_one_type", "next"}
     /\ IsOk(last.res)
     /\ last.res.value.id = "BitString")
    => /\ last.res.value.unused_bits \in 0..7
       /\ last.res.value.unused_bits > 0 => Len(last.res.value.bytes) >= 1

\* C12: an identifier byte whose low five bits are 11111 (a multi-byte tag) makes
\* parse_one_type and the iterator return an error, whatever its class and its
\* primitive/constructed bit.
C12_MultiByteTagsRejected ==
    (/\ last.op \in {"parse_one_type", "next"}
     /\ last.window # <<>>
     /\ last.window[1] % 32 = 31)
    => IsErr(last.res)

----------------------------------------------------------------------------
(* Object identifiers: parse_one_type on an OBJECT IDENTIFIER whose arcs    *)
(* take one to five bytes, ended and not.                                   *)

\* the most content bytes of an OBJECT IDENTIFIER
MaxOidLen == 6

\* arc bytes: last bytes 0, 1, 127 and continuation bytes 128, 129, 255
OidBytes == {0, 1, 127, 128, 129, 255}

OidWindows == {<<6, Len(c)>> \o c : c \in SeqsUpTo(OidBytes, MaxOidLen)}

InitOid ==
    /\ reader \in OidWindows
    /\ last = Idle
    /\ input = <<>>
    /\ pc = "idle"
    /\ out = <<>>
    /\ failed = FALSE

\* parse_one_type(&mut reader) on an OBJECT IDENTIFIER
ParseOid ==
    /\ pc = "idle"
    /\ pc' = "parsed"
    /\ LET r == parse_one_type(reader) IN
       /\ reader' = r.reader
       /\ last' = [op |-> "parse_one_type", arg |-> "", window |-> reader, res |-> r.res,
                   contents |-> r.contents]
    /\ UNCHANGED <<input, out, failed>>

NextOid == ParseOid

SpecOid == InitOid /\ [][NextOid]_vars

\* the number of bytes with the continuation bit from position s of c on
ContinuationRun(c, s) ==
    CHOOSE k \in 0..(Len(c) - s + 1) :
        /\ \A j \in 0..(k - 1) : c[s + j] >= 128
        /\ s + k <= Len(c) => c[s + k] < 128

\* the positions of c where an arc begins: the byte after the first one, and the
\* byte after every byte without the continuation bit
ArcStarts(c) == {s \in 2..Len(c) : s = 2 \/ c[s - 1] < 128}

\* the arc at s goes on after its fourth byte, and it ends c before its last byte
ArcTooLong(c, s) == ContinuationRun(c, s) >= 4
ArcCutShort(c, s) == s + ContinuationRun(c, s) > Len(c)

\* the number the base-128 digits of the arc at s denote
RECURSIVE Base128(_)
Base128(d) ==
    IF d = <<>> THEN 0 ELSE Base128(SubSeq(d, 1, Len(d) - 1)) * 128 + (d[Len(d)] % 128)

ArcValue(c, s) == Base128(SubSeq(c, s, s + ContinuationRun(c, s)))

\* the arcs of c in their order
RECURSIVE ArcsFrom(_, _)
ArcsFrom(c, s) ==
    IF s > Len(c) THEN <<>>
    ELSE <<ArcValue(c, s)>> \o ArcsFrom(c, s + ContinuationRun(c, s) + 1)

\* the first arc of c that is too long or cut short, 0 when there is none
FirstBadArc(c) ==
    LET bad == {s \in ArcStarts(c) : ArcTooLong(c, s) \/ ArcCutShort(c, s)} IN
    IF bad = {} THEN 0 ELSE CHOOSE s \in bad : \A t \in bad : s <= t

\* C13 as stated: a decoded OBJECT IDENTIFIER has every arc at most 2^28 - 1; the
\* first faulty arc gives BadOidLength when it has more than four bytes and
\* EndOfStream when its last byte still has the continuation bit.
C13_ArcBoundAsStated ==
    (last.op = "parse_one_type" /\ Len(last.contents) >= 1) =>
        LET c == last.contents
            s == FirstBadArc(c)
        IN
        /\ IsOk(last.res) => \A i \in 1..Len(last.res.value.items) :
                                 last.res.value.items[i] <= 2 ^ 28 - 1
        /\ s # 0 =>
              /\ IsErr(last.res)
              /\ last.res.error.kind =
                    IF ContinuationRun(c, s) >= 4 /\ s + 4 <= Len(c) THEN "BadOidLength"
                    ELSE "EndOfStream"

\* C13: a content without a faulty arc decodes to first byte / 40, first byte % 40
\* and the base-128 value of every arc, each at most 2^28 - 1; otherwise the first
\* faulty arc gives BadOidLength when its first four bytes all have the
\* continuation bit (whether or not a fifth byte follows) and EndOfStream when the
\* content ends after fewer than four such bytes.
C13_ArcBound ==
    (last.op = "parse_one_type" /\ Len(last.contents) >= 1) =>
        LET c == last.contents
            s == FirstBadArc(c)
        IN
        IF s = 0 THEN
            /\ IsOk(last.res)
            /\ last.res.value.items = <<c[1] \div 40, c[1] % 40>> \o ArcsFrom(c, 2)
            /\ \A i \in 1..Len(last.res.value.items) : last.res.value.items[i] <= 2 ^ 28 - 1
        ELSE
            /\ IsErr(last.res)
            /\ last.res.error.kind =
                  IF ArcTooLong(c, s) THEN "BadOidLength" ELSE "EndOfStream"

\* an arc of four bytes has decoded to 2^28 - 1
C13_Witness ==
    /\ last.op = "parse_one_type"
    /\ IsOk(last.res)
    /\ \E i \in 1..Len(last.res.value.items) : last.res.value.items[i] = 2 ^ 28 - 1

----------------------------------------------------------------------------
(* The tree walker (der/parse_all.rs). The handler is the list of the calls *)
(* it has received. The recursion of parse_all is a stack of parser windows, *)
(* the innermost call first: one step is one turn of the for loop of the     *)
(* innermost call, with the callbacks it makes.                              *)

\* the calls a ParseHandler receives
on_type(asn) == [ev |-> "on_type", asn |-> asn]
begin_constructed == [ev |-> "begin_constructed"]
end_constructed == [ev |-> "end_constructed"]
on_error(err) == [ev |-> "on_error", err |-> err]

\* a turn of the loop in which every active call reports the error it passes on
parse_all_step_reporting(stack, handler) ==
    [n \in Any |->
        IF n.res.tag = "None" THEN
            IF Len(stack) = 1 THEN [stack |-> <<>>, handler |-> handler, res |-> Some(Ok(<<>>))]
            ELSE [stack |-> Tail(stack), handler |-> Append(handler, end_constructed), res |-> None]
        ELSE IF IsErr(n.res) THEN
            [stack |-> <<>>,
             handler |-> handler \o [i \in 1..Len(stack) |-> on_error(n.res.error)],
             res |-> Some(n.res)]
        ELSE IF n.res.value.id \in {"Sequence", "Set"} THEN
            [stack |-> <<n.res.value.bytes, n.reader>> \o Tail(stack),
             handler |-> handler \o <<on_type(n.res.value), begin_constructed>>,
             res |-> None]
        ELSE IF n.res.value.id = "ExplicitTag" THEN
            [stack |-> <<n.res.value.contents, n.reader>> \o Tail(stack),
             handler |-> handler \o <<on_type(n.res.value), begin_constructed>>,
             res |-> None]
        ELSE
            [stack |-> <<n.reader>> \o Tail(stack),
             handler |-> Append(handler, on_type(n.res.value)),
             res |-> None]
    ][Parser_next(Head(stack))]

\* a turn of the loop that treats an ExplicitTag as a leaf
parse_all_step_flat_tags(stack, handler) ==
    [n \in Any |->
        IF n.res.tag = "None" THEN
            IF Len(stack) = 1 THEN [stack |-> <<>>, handler |-> handler, res |-> Some(Ok(<<>>))]
            ELSE [stack |-> Tail(stack), handler |-> Append(handler, end_constructed), res |-> None]
        ELSE IF IsErr(n.res) THEN
            [stack |-> <<>>,
             handler |-> Append(handler, on_error(n.res.error)),
             res |-> Some(n.res)]
        ELSE IF n.res.value.id \in {"Sequence", "Set"} THEN
            [stack |-> <<n.res.value.bytes, n.reader>> \o Tail(stack),
             handler |-> handler \o <<on_type(n.res.value), begin_constructed>>,
             res |-> None]
        ELSE
            [stack |-> <<n.reader>> \o Tail(stack),
             handler |-> Append(handler, on_type(n.res.value)),
             res |-> None]
    ][Parser_next(Head(stack))]

\* parse_all (the tree walker): one turn of `for result in Parser::new(input)` in
\* the innermost active call. The parser yields nothing more: the call returns
\* Ok(()), and its caller, if it has one, calls end_constructed and goes on. It
\* yields an error: on_error, and Err(err) is handed up through every caller by `?`.
\* It yields a value: on_type, and for a Sequence, a Set and an ExplicitTag
\* begin_constructed and a new call on the contents. res is Some(result) when
\* the outermost call has returned.
parse_all_step(stack, handler) ==
    [n \in Any |->
        IF n.res.tag = "None" THEN
            IF Len(stack) = 1 THEN [stack |-> <<>>, handler |-> handler, res |-> Some(Ok(<<>>))]
            ELSE [stack |-> Tail(stack), handler |-> Append(handler, end_constructed), res |-> None]
        ELSE IF IsErr(n.res) THEN
            [stack |-> <<>>,
             handler |-> Append(handler, on_error(n.res.error)),
             res |-> Some(n.res)]
        ELSE IF n.res.value.id \in {"Sequence", "Set"} THEN
            [stack |-> <<n.res.value.bytes, n.reader>> \o Tail(stack),
             handler |-> handler \o <<on_type(n.res.value), begin_constructed>>,
             res |-> None]
        ELSE IF n.res.value.id = "ExplicitTag" THEN
            [stack |-> <<n.res.value.contents, n.reader>> \o Tail(stack),
             handler |-> handler \o <<on_type(n.res.value), begin_constructed>>,
             res |-> None]
        ELSE
            [stack |-> <<n.reader>> \o Tail(stack),
             handler |-> Append(handler, on_type(n.res.value)),
             res |-> None]
    ][Parser_next(Head(stack))]

\* longest input of the walker enumerated exhaustively over WalkBytes
MaxWalkLen == 5

\* the tags of Integer, OctetString, Sequence, Set and [0], and the lengths 0, 2, 4
WalkBytes == {0, 2, 4, 48, 49, 160}

\* inputs nested three deep: walked to the end, failing at the bottom, and failing
\* on what follows a container that was walked to the end
WalkNested ==
    {<<48, 4, 49, 2, 160, 0>>, <<160, 4, 49, 2, 4, 0>>, <<48, 6, 160, 4, 49, 2, 4, 0>>,
     <<48, 5, 160, 3, 49, 1, 4>>, <<49, 6, 160, 2, 4, 0, 48, 0>>,
     <<48, 6, 160, 4, 160, 0, 48, 0>>, <<48, 6, 160, 2, 4, 0, 4, 0, 4, 0>>}

WalkInputs == SeqsUpTo(WalkBytes, MaxWalkLen) \cup WalkNested

\* parse_all(input, handler) is called with a handler that has received nothing
InitWalk ==
    /\ input \in WalkInputs
    /\ reader = <<input>>
    /\ last = Idle
    /\ pc = "walking"
    /\ out = <<>>
    /\ failed = FALSE

\* a turn of the loop; reader holds the stack of parser windows and out the handler,
\* last the depth of the call that took the turn and the result of the walk
WalkStep ==
    /\ pc = "walking"
    /\ LET step == parse_all_step(reader, out) IN
       /\ reader' = step.stack
       /\ out' = step.handler
       /\ pc' = IF step.res.some THEN "done" ELSE "walking"
       /\ last' = IF step.res.some
                  THEN [op |-> "parse_all", depth |-> Len(reader), res |-> step.res.value]
                  ELSE [op |-> "parse_all", depth |-> Len(reader)]
    /\ UNCHANGED <<input, failed>>

NextWalk == WalkStep

SpecWalk == InitWalk /\ [][NextWalk]_vars

\* the places of the calls of on_error in what the handler has received
ErrorCalls == {i \in 1..Len(out) : out[i].ev = "on_error"}

\* C15: a walk that fails, at any depth, has made exactly one on_error call, the last
\* call the handler receives, and returns the error it passed to it; while the walk
\* goes on, the handler has received no on_error.
C15_ErrorProtocol ==
    /\ pc = "walking" => ErrorCalls = {}
    /\ (pc = "done" /\ IsErr(last.res)) =>
        /\ ErrorCalls = {Len(out)}
        /\ out[Len(out)] = on_error(last.res.error)

\* C15: the walk fails three calls deep, after a container has been walked to its end
C15_Witness ==
    /\ pc = "done"
    /\ IsErr(last.res)
    /\ last.depth >= 3
    /\ \E i \in 1..Len(out) : out[i].ev = "end_constructed"

\* what the handler sees of a call: of on_type the type and the contents octets
EventView(e) ==
    IF e.ev = "on_type"
    THEN [ev |-> "on_type", id |-> e.asn.id,
          contents |-> IF e.asn.id = "ExplicitTag" THEN e.asn.contents ELSE e.asn.bytes]
    ELSE e

\* the type an identifier octet of WalkBytes stands for
WalkType(b) ==
    CASE b = 2 -> "Integer" [] b = 4 -> "OctetString" [] b = 48 -> "Sequence"
      [] b = 49 -> "Set" [] b = 160 -> "ExplicitTag"

\* the events of a well-formed window whose lengths take one octet, read off the
\* bytes from left to right: of every value on_type, and of a constructed one
\* begin_constructed, the events of its contents and end_constructed
RECURSIVE ExpectedEvents(_)
ExpectedEvents(w) ==
    IF w = <<>> THEN <<>>
    ELSE <<[ev |-> "on_type", id |-> WalkType(w[1]), contents |-> SubSeq(w, 3, 2 + w[2])]>>
         \o (IF w[1] \in {48, 49, 160}
             THEN <<begin_constructed>> \o ExpectedEvents(SubSeq(w, 3, 2 + w[2]))
                  \o <<end_constructed>>
             ELSE <<>>)
         \o ExpectedEvents(Drop(w, 2 + w[2]))

\* how many calls named ev the handler has received
Calls(ev) == Cardinality({i \in 1..Len(out) : out[i].ev = ev})

\* C16: on an input walked without error the handler receives, in the order of the
\* bytes, one on_type for every value, and for every Sequence, Set and ExplicitTag
\* on_type, begin_constructed, the events of its contents, end_constructed;
\* begin_constructed and end_constructed are nested (while the walk goes on the open
\* containers are the active calls but the outermost) and equal in number at the end.
C16_EventOrder ==
    /\ pc = "walking" =>
        Calls("begin_constructed") - Calls("end_constructed") = Len(reader) - 1
    /\ (pc = "done" /\ IsOk(last.res)) =>
        /\ [i \in 1..Len(out) |-> EventView(out[i])] = ExpectedEvents(input)
        /\ Calls("begin_constructed") = Calls("end_constructed")

\* C16: a walk ends without error after it has opened containers inside one another
\* and has met a value behind a container it had closed
C16_Witness ==
    /\ pc = "done"
    /\ IsOk(last.res)
    /\ \E i \in 1..(Len(out) - 2) :
        out[i].ev = "begin_constructed" /\ out[i + 2].ev = "begin_constructed"
    /\ \E i \in 1..(Len(out) - 1) : out[i].ev = "end_constructed" /\ out[i + 1].ev = "on_type"

----------------------------------------------------------------------------
(* The tree walker on containers nested in one another and nothing else:    *)
(* [0] { [0] { ... [0] {} ... } }, from one container to MaxNesting.         *)

\* the deepest nesting walked
MaxNesting == 129

\* the number of nested containers the walker is to stop at, 128: the deepest
\* input walked is nested one deeper
RecursionBudget == MaxNesting - 1

\* the length of the contents of the k-th container from the inside: the innermost
\* is empty, and a container is two octets longer than its contents while these
\* take less than 128 octets, three while less than 256, then four
NestedContentLen(k) ==
    IF k <= 64 THEN 2 * (k - 1)
    ELSE IF k <= 107 THEN 128 + 3 * (k - 65)
    ELSE 257 + 4 * (k - 108)

NestedLen(k) == NestedContentLen(k) + (IF k <= 64 THEN 2 ELSE IF k <= 107 THEN 3 ELSE 4)

\* d containers nested in one another: octet i lies in the header of the one
\* container k that begins NestedLen(k) octets before the end
Nested(d) ==
    [i \in 1..NestedLen(d) |->
        [k \in Any |->
            (<<160>> \o EncodeLength(NestedContentLen(k)))[i - (NestedLen(d) - NestedLen(k))]
        ][CHOOSE k \in 1..d :
            /\ NestedLen(d) - NestedLen(k) < i
            /\ i <= NestedLen(d) - NestedContentLen(k)]]

InitDeep ==
    /\ input \in {Nested(d) : d \in 1..MaxNesting}
    /\ reader = <<input>>
    /\ last = Idle
    /\ pc = "walking"
    /\ out = <<>>
    /\ failed = FALSE

NextDeep == WalkStep

SpecDeep == InitDeep /\ [][NextDeep]_vars

\* C17: the walker never has more than RecursionBudget containers open inside one
\* another, and an input nested deeper is rejected with an error.
C17_RecursionBudget ==
    /\ Len(reader) - 1 <= RecursionBudget
    /\ (pc = "done" /\ Calls("begin_constructed") > RecursionBudget) => IsErr(last.res)

----------------------------------------------------------------------------
(* ASNBitString and its iterator (types.rs). A usize is held as four 16-bit *)
(* limbs, least significant first, so that a subtraction that wraps gives   *)
(* the value it gives on a 64-bit target.                                   *)

Panic == [tag |-> "Panic"]
IsPanic(r) == r.tag = "Panic"

\* the usize of a number below 2^31
Usize(n) == <<n % 65536, n \div 65536, 0, 0>>

\* a - b on limbs from limb i on, with the borrow of the limbs below
RECURSIVE sub_limbs(_, _, _, _)
sub_limbs(a, b, i, borrow) ==
    IF i > 4 THEN <<>>
    ELSE LET d == a[i] - b[i] - borrow IN
         IF d < 0 THEN <<d + 65536>> \o sub_limbs(a, b, i + 1, 1)
         ELSE <<d>> \o sub_limbs(a, b, i + 1, 0)

\* usize::wrapping_sub
wrapping_sub(a, b) == sub_limbs(a, b, 1, 0)

\* a < b on usize
RECURSIVE less_from(_, _, _)
less_from(a, b, i) ==
    IF i = 0 THEN FALSE
    ELSE IF a[i] # b[i] THEN a[i] < b[i]
    ELSE less_from(a, b, i - 1)

usize_lt(a, b) == less_from(a, b, 4)

\* ASNBitString::size: bytes.len() * 8 - unused_bits. With overflow checks (a
\* debug build) a subtraction below zero panics, without them it wraps.
size(bit_string, overflow_checks) ==
    LET bits == Len(bit_string.bytes) * 8 IN
    IF bits < bit_string.unused_bits /\ overflow_checks THEN Panic
    ELSE Ok(wrapping_sub(Usize(bits), Usize(bit_string.unused_bits)))

\* u8 << shift & 0x80 != 0, the shift below 8 and its result cut to a u8
top_bit_after_shift(byte, shift) == ((byte * (2 ^ shift)) % 256) \div 128 # 0

\* ASNBitStringIterator::next at current_bit: Some(bit), None, or a panic of
\* size() or of the index into bytes
ASNBitStringIterator_next(bit_string, current_bit, overflow_checks) ==
    LET sz == size(bit_string, overflow_checks) IN
    IF IsPanic(sz) THEN Panic
    ELSE IF usize_lt(Usize(current_bit), sz.value) THEN
        IF current_bit \div 8 >= Len(bit_string.bytes) THEN Panic
        ELSE [tag |-> "Some",
              value |-> top_bit_after_shift(bit_string.bytes[current_bit \div 8 + 1],
                                            current_bit % 8)]
    ELSE [tag |-> "None"]

----------------------------------------------------------------------------
(* KeyUsage (x509/ext.rs) *)

\* the fields of KeyUsage in the order of the match arms 0..8
KeyUsageFields ==
    <<"digital_signature", "content_commitment", "key_encipherment", "data_encipherment",
      "key_agreement", "key_cert_sign", "crl_sign", "encipher_only", "decipher_only">>

\* the KeyUsage that parse starts from: every flag false
KeyUsage_default == [f \in {KeyUsageFields[i] : i \in 1..9} |-> FALSE]

\* the arm of the match that offset selects: the field it assigns, "_" for none
key_usage_match(offset) ==
    IF offset \in 0..8 THEN KeyUsageFields[offset + 1] ELSE "_"

\* offset in round k of the loop (rounds count from 0): 0 after k times
\* offset += offset
offset_in_round(k) == 0 * (2 ^ k)

\* the rounds of `for bit in bit_string.iter()`: next() at current_bit 0, 1, ..
\* is Some in every round and something else after the last; the index into
\* bytes panics at current_bit = 8 * bytes.len() if nothing ended the loop before
key_usage_rounds(bit_string, overflow_checks) ==
    CHOOSE n \in 0..(8 * Len(bit_string.bytes)) :
        /\ ASNBitStringIterator_next(bit_string, n, overflow_checks).tag # "Some"
        /\ \A k \in 0..(n - 1) :
              ASNBitStringIterator_next(bit_string, k, overflow_checks).tag = "Some"

\* for bit in bit_string.iter() { match offset {..}; offset += offset; }: a panic
\* of next(), or every field as the last round that assigned it left it
key_usage_loop(bit_string, key_usage, overflow_checks) ==
    [n \in Any |->
        IF IsPanic(ASNBitStringIterator_next(bit_string, n, overflow_checks)) THEN Panic
        ELSE Ok([f \in DOMAIN key_usage |->
                    LET assigned == {k \in 0..(n - 1) : key_usage_match(offset_in_round(k)) = f}
                        final == CHOOSE k \in assigned : \A j \in assigned : j <= k
                    IN
                    IF assigned = {} THEN key_usage[f]
                    ELSE ASNBitStringIterator_next(bit_string, final, overflow_checks).value])
    ][key_usage_rounds(bit_string, overflow_checks)]

\* KeyUsage::parse
KeyUsage_parse(bytes, overflow_checks) ==
    [bit_string \in Any |->
        IF IsErr(bit_string.res) THEN bit_string.res
        ELSE key_usage_loop(bit_string.res.value, KeyUsage_default, overflow_checks)
    ][expect(bytes, "BitString")]

\* SubjectKeyIdentifier::parse
SubjectKeyIdentifier_parse(bytes) == expect(bytes, "OctetString").res

----------------------------------------------------------------------------
(* The typed accessors: a value decoded from the bytes of input, and then   *)
(* ASNInteger::as_i32, ASNBitString::size or the extension parsers on it.   *)

MaxBitOctets == 3
MaxIntOctets == 5

\* unused-bit counts in and out of range, and bit octets
BitBytes == {0, 1, 5, 7, 8, 64, 128, 255}
IntBytes == {0, 1, 127, 128, 255}

\* BIT STRING, INTEGER and OCTET STRING values, and the windows of the parser
TypesWindows ==
    {<<3, Len(c)>> \o c : c \in SeqsUpTo(BitBytes, MaxBitOctets)}
    \cup {<<2, Len(c)>> \o c : c \in SeqsUpTo(IntBytes, MaxIntOctets)}
    \cup {<<4, Len(c)>> \o c : c \in SeqsUpTo({0, 255}, 2)}
    \cup SeqsUpTo(ParserBytes, MaxLen)

InitTypes ==
    /\ input \in TypesWindows
    /\ reader = <<>>
    /\ last = Idle
    /\ pc = "idle"
    /\ out = <<>>
    /\ failed = FALSE

\* what an accessor called on the value decoded from input leaves behind
Accessed(op, arg, res) ==
    /\ last' = [op |-> op, arg |-> arg, window |-> input, res |-> res]
    /\ UNCHANGED <<input, reader, out, failed>>

\* Parser::new(input).expect::<Integer>()?.as_i32()
IntegerAsI32 ==
    LET integer == expect(input, "Integer") IN
    /\ IsOk(integer.res)
    /\ pc' = "done"
    /\ Accessed("as_i32", integer.res.value.bytes, as_i32(integer.res.value.bytes))

\* Parser::new(input).expect::<BitString>()?.size(), in a build with and in one
\* without overflow checks
BitStringSize ==
    LET bit_string == expect(input, "BitString") IN
    /\ IsOk(bit_string.res)
    /\ pc' = "done"
    /\ \E overflow_checks \in BOOLEAN :
          Accessed("size", overflow_checks, size(bit_string.res.value, overflow_checks))

\* KeyUsage::parse(input), in a build with and in one without overflow checks
KeyUsageParse ==
    /\ pc' = "done"
    /\ \E overflow_checks \in BOOLEAN :
          Accessed("KeyUsage::parse", overflow_checks, KeyUsage_parse(input, overflow_checks))

\* SubjectKeyIdentifier::parse(input)
SubjectKeyIdentifierParse ==
    /\ pc' = "done"
    /\ Accessed("SubjectKeyIdentifier::parse", "", SubjectKeyIdentifier_parse(input))

NextTypes ==
    \/ IntegerAsI32
    \/ BitStringSize
    \/ KeyUsageParse
    \/ SubjectKeyIdentifierParse

SpecTypes == InitTypes /\ [][NextTypes]_vars

----------------------------------------------------------------------------
(* Claims about the typed accessors *)

\* the BIT STRING a window <<3, n, unused, octets..>> holds, and its bit k counted
\* from the most significant bit of the first octet (FALSE when absent)
BitOctets(w) == SubSeq(w, 4, Len(w))
BitCount(w) == 8 * Len(BitOctets(w)) - w[3]
BitAt(w, k) ==
    /\ k < BitCount(w)
    /\ (BitOctets(w)[k \div 8 + 1] \div (2 ^ (7 - (k % 8)))) % 2 = 1

\* C8: decoding an input and using the accessors of the values produced never
\* panics: ASNBitString::size() and KeyUsage::parse return for every input.
C8_PanicFreedom ==
    last.op \in {"size", "KeyUsage::parse"} => ~IsPanic(last.res)

\* C9: KeyUsage::parse sets flag k (k = 0..8) to bit k of the bit string counted
\* from the most significant bit of the first octet; absent bits give false.
C9_KeyUsageBitMapping ==
    (last.op = "KeyUsage::parse" /\ IsOk(last.res)) =>
        \A k \in 0..8 : last.res.value[KeyUsageFields[k + 1]] = BitAt(last.window, k)

\* C10: as_i32 returns Some for every Integer whose content has 1, 2, 3 or 4
\* bytes and None for every other length.
C10_AsI32Lengths ==
    last.op = "as_i32" => (last.res.some <=> Len(last.arg) \in 1..4)

\* the two's-complement big-endian value of content bytes
TwosComplement(bytes) ==
    BigEndian(bytes) - (IF bytes[1] >= 128 THEN Pow256(Len(bytes)) ELSE 0)

\* C11: whenever as_i32 returns Some(v), v is the two's-complement big-endian
\* value of the content bytes (negative when the first byte has its top bit set).
C11_TwosComplement ==
    (last.op = "as_i32" /\ last.res.some) => last.res.value = TwosComplement(last.arg)

----------------------------------------------------------------------------
(* X.509 (x509.rs): every decoder takes the bytes it is given and returns   *)
(* Ok(value) or Err(error).                                                 *)

\* step(parser.expect::<T>()?): the value expected, handed to a decoder
expect_then(r, T, step(_)) ==
    [e \in Any |->
        IF IsErr(e.res) THEN e ELSE [res |-> step(e.res.value), reader |-> e.reader]
    ][expect(r, T)]

\* Parser::get_optional_explicit_tag_value::<T>(tag): the explicit tag, if it is
\* there, unwrapped and its single inner value decoded as T
get_optional_explicit_tag_value(r, T, tag) ==
    [g \in Any |->
        IF IsErr(g.res) \/ ~g.res.value.some THEN g
        ELSE [v \in Any |->
                 [res |-> IF IsErr(v) THEN v ELSE Ok(Some(v.value)), reader |-> g.reader]
             ][parse_all(expect(g.res.value.value.contents, T))]
    ][get_optional_explicit_tag(r, tag)]

\* a Constructed that keeps the value and not the bytes
Constructed_without_bytes(bytes, value) == [bytes |-> <<>>, value |-> value]

\* Constructed::new
Constructed_new(bytes, value) == [bytes |-> bytes, value |-> value]

\* The arguments of a constructor are read in their order, each from where the
\* one before stopped, and the first error among them is what the ? returns.

\* AlgorithmIdentifier::parse
AlgorithmIdentifier_parse(bytes) ==
    [algorithm \in Any |-> IF IsErr(algorithm.res) THEN algorithm.res ELSE
    [parameters \in Any |-> IF IsErr(parameters.res) THEN parameters.res ELSE
        Ok([algorithm |-> algorithm.res.value, parameters |-> parameters.res.value])
    ][expect_any_or_end(algorithm.reader)]
    ][expect(bytes, "ObjectIdentifier")]

\* the closure of Validity::parse
validity_fields(parser) ==
    [not_before \in Any |-> IF IsErr(not_before.res) THEN not_before ELSE
    [not_after \in Any |-> IF IsErr(not_after.res) THEN not_after ELSE
        [res |-> Ok([not_before |-> not_before.res.value,
                     not_after |-> not_after.res.value]),
         reader |-> not_after.reader]
    ][expect(not_before.reader, "UTCTime")]
    ][expect(parser, "UTCTime")]

\* Validity::parse
Validity_parse(bytes) == parse_all(validity_fields(bytes))

\* a <= b on the instants of UtcTime
instant_le(a, b) ==
    a.minutes < b.minutes \/ (a.minutes = b.minutes /\ a.seconds <= b.seconds)

\* an is_valid that leaves out the instant not_after itself
is_valid_before_end(validity, now) ==
    /\ validity.not_before.minutes < now.minutes
          \/ (validity.not_before.minutes = now.minutes
              /\ validity.not_before.seconds <= now.seconds)
    /\ now.minutes < validity.not_after.minutes
          \/ (now.minutes = validity.not_after.minutes
              /\ now.seconds < validity.not_after.seconds)

\* Validity::is_valid
is_valid(validity, now) ==
    instant_le(validity.not_before, now) /\ instant_le(now, validity.not_after)

\* Name::new
Name_new(bytes) == Ok([inner |-> bytes])

\* RelativeDistinguishedName::empty
RelativeDistinguishedName_empty ==
    [country_name |-> None, state_or_province_unit_name |-> None, locality_name |-> None,
     organization |-> None, organizational_unit_name |-> None, common_name |-> None]

\* the match of parse_single on oid.values(): the field the attribute fills, "_"
\* for the attributes that are not recognized
name_component(values) ==
    CASE values = <<2, 5, 4, 3>> -> "common_name"
      [] values = <<2, 5, 4, 6>> -> "country_name"
      [] values = <<2, 5, 4, 7>> -> "locality_name"
      [] values = <<2, 5, 4, 8>> -> "state_or_province_unit_name"
      [] values = <<2, 5, 4, 10>> -> "organization"
      [] values = <<2, 5, 4, 11>> -> "organizational_unit_name"
      [] OTHER -> "_"

\* a fill_name_component that replaces the value of a component that is set
fill_name_component_overwriting(value, component, oid) ==
    IF value.id \notin {"IA5String", "PrintableString", "UTF8String"} THEN
        [res |-> Err(UnexpectedType("PrintableString", value.id)), component |-> component]
    ELSE [res |-> Ok(<<>>), component |-> Some(value.bytes)]

\* parse_single::fill_name_component: the result and the component it leaves
fill_name_component(value, component, oid) ==
    IF value.id \notin {"IA5String", "PrintableString", "UTF8String"} THEN
        [res |-> Err(UnexpectedType("PrintableString", value.id)), component |-> component]
    ELSE IF component.some THEN
        [res |-> Err([kind |-> "UnexpectedOid", oid |-> oid]), component |-> component]
    ELSE [res |-> Ok(<<>>), component |-> Some(value.bytes)]

\* the closure of parse_single: the result, the parser and self as it leaves them
parse_single_fields(self, parser) ==
    [oid \in Any |->
        IF IsErr(oid.res) THEN [res |-> oid.res, reader |-> oid.reader, self |-> self] ELSE
    [value \in Any |->
        IF IsErr(value.res) THEN [res |-> value.res, reader |-> value.reader, self |-> self] ELSE
    [slot \in Any |->
        IF slot = "_" THEN [res |-> Ok(<<>>), reader |-> value.reader, self |-> self] ELSE
    [filled \in Any |->
        [res |-> filled.res, reader |-> value.reader,
         self |-> [self EXCEPT ![slot] = filled.component]]
    ][fill_name_component(value.res.value, self[slot], oid.res.value)]
    ][name_component(oid.res.value.items)]
    ][expect_any(oid.reader)]
    ][expect(parser, "ObjectIdentifier")]

\* RelativeDistinguishedName::parse_single: the result and self as it leaves it
parse_single(self, bytes) ==
    [fields \in Any |-> [res |-> parse_all(fields), self |-> fields.self]
    ][parse_single_fields(self, bytes)]

\* the inner loop of RelativeDistinguishedName::parse:
\* while let Some(seq) = parser.expect_or_end::<Sequence>()? { result.parse_single(seq)?; }
RECURSIVE parse_rdn_entries(_, _)
parse_rdn_entries(result, parser) ==
    [seq \in Any |->
        IF IsErr(seq.res) THEN [res |-> seq.res, self |-> result]
        ELSE IF ~seq.res.value.some THEN [res |-> Ok(<<>>), self |-> result]
        ELSE [single \in Any |->
                 IF IsErr(single.res) THEN single
                 ELSE parse_rdn_entries(single.self, seq.reader)
             ][parse_single(result, seq.res.value.value)]
    ][expect_or_end(parser, "Sequence")]

\* the body of the outer loop: a Parser over the set, one entry at least, then the rest
parse_rdn(result, set) ==
    [seq \in Any |->
        IF IsErr(seq.res) THEN [res |-> seq.res, self |-> result]
        ELSE [single \in Any |->
                 IF IsErr(single.res) THEN single
                 ELSE parse_rdn_entries(single.self, seq.reader)
             ][parse_single(result, seq.res.value)]
    ][expect(set, "Sequence")]

\* the outer loop of RelativeDistinguishedName::parse:
\* while let Some(set) = parser.expect_or_end::<Set>()? { ... } Ok(result)
RECURSIVE parse_rdn_sequence(_, _)
parse_rdn_sequence(result, parser) ==
    [set \in Any |->
        IF IsErr(set.res) THEN set.res
        ELSE IF ~set.res.value.some THEN Ok(result)
        ELSE [rdn \in Any |->
                 IF IsErr(rdn.res) THEN rdn.res
                 ELSE parse_rdn_sequence(rdn.self, set.reader)
             ][parse_rdn(result, set.res.value.value)]
    ][expect_or_end(parser, "Set")]

\* RelativeDistinguishedName::parse
RelativeDistinguishedName_parse(bytes) ==
    parse_rdn_sequence(RelativeDistinguishedName_empty, bytes)

\* Name::parse
Name_parse(name) == RelativeDistinguishedName_parse(name.inner)

\* the closure of SubjectPublicKeyInfo::parse
subject_public_key_info_fields(parser) ==
    [algorithm \in Any |-> IF IsErr(algorithm.res) THEN algorithm ELSE
    [subject_public_key \in Any |->
        IF IsErr(subject_public_key.res) THEN subject_public_key ELSE
        [res |-> Ok([algorithm |-> algorithm.res.value,
                     subject_public_key |-> subject_public_key.res.value]),
         reader |-> subject_public_key.reader]
    ][expect(algorithm.reader, "BitString")]
    ][expect_then(parser, "Sequence", AlgorithmIdentifier_parse)]

\* SubjectPublicKeyInfo::parse
SubjectPublicKeyInfo_parse(bytes) == parse_all(subject_public_key_info_fields(bytes))

\* TBSCertificate::parse::parse_version
version_of(value) ==
    [x \in Any |->
        IF ~x.some THEN Err([kind |-> "IntegerTooLarge", len |-> Len(value.bytes)])
        ELSE IF x.value = 0 THEN Ok("V1")
        ELSE IF x.value = 1 THEN Ok("V2")
        ELSE IF x.value = 2 THEN Ok("V3")
        ELSE Err([kind |-> "BadEnumValue", name |-> "version", value |-> x.value])
    ][as_i32(value.bytes)]

parse_version(r) ==
    [g \in Any |->
        IF IsErr(g.res) THEN g
        ELSE IF g.res.value.some THEN [res |-> version_of(g.res.value.value), reader |-> g.reader]
        ELSE [res |-> Ok("V1"), reader |-> g.reader]
    ][get_optional_explicit_tag_value(r, "Integer", 0)]

\* TBSCertificate::parse::parse_optional_bitstring
some_bitstring(parser) ==
    [e \in Any |->
        IF IsErr(e.res) THEN e ELSE [res |-> Ok(Some(e.res.value)), reader |-> e.reader]
    ][expect(parser, "BitString")]

parse_optional_bitstring(r, tag) ==
    [g \in Any |->
        IF IsErr(g.res) \/ ~g.res.value.some THEN g
        ELSE [res |-> parse_all(some_bitstring(g.res.value.value.contents)),
              reader |-> g.reader]
    ][get_optional_explicit_tag(r, tag)]

\* Extensions::new
Extensions_new(raw_content) == [raw_content |-> raw_content]

\* TBSCertificate::parse::parse_extensions
parse_extensions(r) ==
    [g \in Any |->
        IF IsErr(g.res) \/ ~g.res.value.some THEN g
        ELSE [res |-> Ok(Some(Extensions_new(g.res.value.value.contents))),
              reader |-> g.reader]
    ][get_optional_explicit_tag(r, 3)]

\* TBSCertificate::parse::parse_tbs_cert
parse_tbs_cert(parser) ==
    [version \in Any |-> IF IsErr(version.res) THEN version ELSE
    [serial_number \in Any |-> IF IsErr(serial_number.res) THEN serial_number ELSE
    [signature \in Any |-> IF IsErr(signature.res) THEN signature ELSE
    [issuer \in Any |-> IF IsErr(issuer.res) THEN issuer ELSE
    [validity \in Any |-> IF IsErr(validity.res) THEN validity ELSE
    [subject \in Any |-> IF IsErr(subject.res) THEN subject ELSE
    [subject_public_key_info \in Any |->
        IF IsErr(subject_public_key_info.res) THEN subject_public_key_info ELSE
    [issuer_unique_id \in Any |-> IF IsErr(issuer_unique_id.res) THEN issuer_unique_id ELSE
    [subject_unique_id \in Any |-> IF IsErr(subject_unique_id.res) THEN subject_unique_id ELSE
    [extensions \in Any |-> IF IsErr(extensions.res) THEN extensions ELSE
        [res |-> Ok([version |-> version.res.value,
                     serial_number |-> serial_number.res.value,
                     signature |-> signature.res.value,
                     issuer |-> issuer.res.value,
                     validity |-> validity.res.value,
                     subject |-> subject.res.value,
                     subject_public_key_info |-> subject_public_key_info.res.value,
                     issuer_unique_id |-> issuer_unique_id.res.value,
                     subject_unique_id |-> subject_unique_id.res.value,
                     extensions |-> extensions.res.value]),
         reader |-> extensions.reader]
    ][parse_extensions(subject_unique_id.reader)]
    ][parse_optional_bitstring(issuer_unique_id.reader, 2)]
    ][parse_optional_bitstring(subject_public_key_info.reader, 1)]
    ][expect_then(subject.reader, "Sequence", SubjectPublicKeyInfo_parse)]
    ][expect_then(validity.reader, "Sequence", Name_new)]
    ][expect_then(issuer.reader, "Sequence", Validity_parse)]
    ][expect_then(signature.reader, "Sequence", Name_new)]
    ][expect_then(serial_number.reader, "Sequence", AlgorithmIdentifier_parse)]
    ][expect(version.reader, "Integer")]
    ][parse_version(parser)]

\* TBSCertificate::parse
TBSCertificate_parse(bytes) ==
    [tbs \in Any |->
        IF IsErr(tbs) THEN tbs ELSE Ok(Constructed_new(bytes, tbs.value))
    ][parse_all(parse_tbs_cert(bytes))]

\* the inner closure of Certificate::parse
certificate_fields(p2) ==
    [tbs_certificate \in Any |-> IF IsErr(tbs_certificate.res) THEN tbs_certificate ELSE
    [signature_algorithm \in Any |->
        IF IsErr(signature_algorithm.res) THEN signature_algorithm ELSE
    [signature_value \in Any |-> IF IsErr(signature_value.res) THEN signature_value ELSE
        [res |-> Ok([tbs_certificate |-> tbs_certificate.res.value,
                     signature_algorithm |-> signature_algorithm.res.value,
                     signature_value |-> signature_value.res.value]),
         reader |-> signature_value.reader]
    ][expect(signature_algorithm.reader, "BitString")]
    ][expect_then(tbs_certificate.reader, "Sequence", AlgorithmIdentifier_parse)]
    ][expect_then(p2, "Sequence", TBSCertificate_parse)]

\* the outer closure of Certificate::parse
certificate_body(bytes) == parse_all(certificate_fields(bytes))

\* Certificate::parse
Certificate_parse(bytes) ==
    parse_all(expect_then(bytes, "Sequence", certificate_body))

----------------------------------------------------------------------------
(* Certificates: Certificate::parse on an input assembled from the fields   *)
(* of RFC 5280, well-formed and not, and Validity::is_valid on its result.  *)

\* identifier, minimal length and contents
Tlv(id, contents) == <<id>> \o EncodeLength(Len(contents)) \o contents

\* the ASCII of a string of decimal digits followed by "Z"
UtcZ(digits) == [i \in 1..Len(digits) |-> 48 + digits[i]] \o <<90>>

\* 250101000000Z, 3001010000Z and 251301000000Z (month 13)
Time2025 == UtcZ(<<2, 5, 0, 1, 0, 1, 0, 0, 0, 0, 0, 0>>)
Time2030 == UtcZ(<<3, 0, 0, 1, 0, 1, 0, 0, 0, 0>>)
TimeBad == UtcZ(<<2, 5, 1, 3, 0, 1, 0, 0, 0, 0, 0, 0>>)

\* the content lengths of the issuer Name: the TBSCertificate's own length in
\* the short form, in the long form of one byte and of two
NameLens == {2, 100, 300}

VersionOpts ==
    {<<>>, Tlv(160, Tlv(2, <<0>>)), Tlv(160, Tlv(2, <<2>>)), Tlv(160, Tlv(2, <<3>>)),
     Tlv(160, Tlv(2, <<2>>) \o Tlv(2, <<0>>))}
SerialOpts == {Tlv(2, <<1>>), Tlv(2, <<>>)}
AlgorithmOpts == {Tlv(48, Tlv(6, <<42, 3>>)), Tlv(48, Tlv(6, <<42, 3>>) \o <<5, 0>>)}
IssuerOpts == {Tlv(48, Fill(n)) : n \in NameLens}
ValidityOpts ==
    {Tlv(48, Tlv(23, Time2025) \o Tlv(23, Time2030)),
     Tlv(48, Tlv(23, Time2030) \o Tlv(23, Time2025)),
     Tlv(48, Tlv(23, Time2025) \o Tlv(23, TimeBad)),
     Tlv(48, Tlv(23, Time2025))}
SubjectOpts == {Tlv(48, Tlv(49, Tlv(48, Tlv(6, <<85, 4, 3>>) \o Tlv(19, <<65>>))))}
KeyInfoOpts ==
    {Tlv(48, Tlv(48, Tlv(6, <<42, 3>>)) \o Tlv(3, <<0, 255>>)),
     Tlv(48, Tlv(48, Tlv(6, <<42, 3>>)) \o Tlv(3, <<0, 255>>) \o <<5, 0>>)}
IssuerIdOpts == {<<>>, Tlv(161, Tlv(3, <<0, 1>>))}
SubjectIdOpts == {<<>>, Tlv(162, Tlv(3, <<0, 1>>))}
ExtensionsOpts ==
    {<<>>, Tlv(163, Tlv(48, Tlv(48, Tlv(6, <<85, 29, 15>>) \o Tlv(4, <<3, 2, 0, 5>>))))}
TrailingOpts == {<<>>, <<5, 0>>}
SignatureOpts == {Tlv(3, <<0, 1, 2>>), Tlv(4, <<1, 2>>)}
\* what follows the outer SEQUENCE: nothing, an empty value of the universal type 7,
\* which the decoder does not support, a NULL
AfterOpts == {<<>>, <<7, 0>>, <<5, 0>>}

\* the TBSCertificate contents
TbsContents ==
    {version \o serial \o algorithm \o issuer \o validity \o subject \o key \o issuer_id
        \o subject_id \o extensions \o trailing :
        version \in VersionOpts, serial \in SerialOpts, algorithm \in AlgorithmOpts,
        issuer \in IssuerOpts, validity \in ValidityOpts, subject \in SubjectOpts,
        key \in KeyInfoOpts, issuer_id \in IssuerIdOpts, subject_id \in SubjectIdOpts,
        extensions \in ExtensionsOpts, trailing \in TrailingOpts}

CertInputs ==
    {Tlv(48, Tlv(48, tbs) \o algorithm \o signature \o inside) \o after :
        tbs \in TbsContents, algorithm \in {Tlv(48, Tlv(6, <<42, 3>>))},
        signature \in SignatureOpts, inside \in TrailingOpts, after \in AfterOpts}

\* the instants is_valid is asked about: the first second of 2020, 2025, 2027,
\* 2030 and 2031, the second before and the second after, in minutes since the
\* epoch and seconds of the minute
NowOpts ==
    {[minutes |-> DaysBeforeYear(y) * 24 * 60 + off[1], seconds |-> off[2]] :
        y \in {2020, 2025, 2027, 2030, 2031}, off \in {<<-1, 59>>, <<0, 0>>, <<0, 1>>}}

InitCert ==
    /\ input \in CertInputs
    /\ reader = <<>>
    /\ last = Idle
    /\ pc = "idle"
    /\ out = <<>>
    /\ failed = FALSE

\* Certificate::parse(input)
CertificateParse ==
    /\ pc = "idle"
    /\ out' = Certificate_parse(input)
    /\ pc' = "parsed"
    /\ last' = [op |-> "Certificate::parse", arg |-> "", window |-> input,
                res |-> IF IsOk(out') THEN "Ok" ELSE "Err"]
    /\ UNCHANGED <<input, reader, failed>>

\* certificate.tbs_certificate.value.validity.is_valid(now)
ValidityIsValid ==
    /\ pc = "parsed"
    /\ IsOk(out)
    /\ \E now \in NowOpts :
          last' = [op |-> "is_valid", arg |-> now, window |-> input,
                   res |-> is_valid(out.value.tbs_certificate.value.validity, now)]
    /\ UNCHANGED <<input, reader, out, pc, failed>>

NextCert ==
    \/ CertificateParse
    \/ ValidityIsValid

SpecCert == InitCert /\ [][NextCert]_vars

----------------------------------------------------------------------------
(* Claims about Certificate::parse *)

\* the contents of the TLV at the head of w: what follows its identifier byte and
\* length octets, as long as the length says
ContentsOf(w) ==
    SubSeq(w, 2 + Len(LengthOctets(Drop(w, 1))),
           1 + Len(LengthOctets(Drop(w, 1))) + LengthDenoted(Drop(w, 1)))

\* C4: whenever Certificate::parse succeeds on input I, tbs_certificate.bytes is
\* the slice of I that is the contents (without identifier and length octets) of
\* the first SEQUENCE inside the outer SEQUENCE, and tbs_certificate.value is what
\* the TBSCertificate fields decode to from exactly those bytes.
C4_RawPreservation ==
    (pc = "parsed" /\ IsOk(out)) =>
        LET raw == ContentsOf(ContentsOf(input)) IN
        /\ input[1] = 48
        /\ ContentsOf(input)[1] = 48
        /\ out.value.tbs_certificate.bytes = raw
        /\ parse_all(parse_tbs_cert(raw)) = Ok(out.value.tbs_certificate.value)

\* a certificate has parsed whose TBSCertificate has a two-byte long-form length,
\* a version, both unique ids and extensions
C4_Witness ==
    /\ pc = "parsed"
    /\ IsOk(out)
    /\ Len(out.value.tbs_certificate.bytes) >= 256
    /\ out.value.tbs_certificate.value.version = "V3"
    /\ out.value.tbs_certificate.value.issuer_unique_id.some
    /\ out.value.tbs_certificate.value.extensions.some

\* C18: in every TBSCertificate that parses, a unique id being present implies that
\* the version is V2 or V3, and extensions being present that it is V3.
C18_VersionGating ==
    (pc = "parsed" /\ IsOk(out)) =>
        /\ (\/ out.value.tbs_certificate.value.issuer_unique_id.some
            \/ out.value.tbs_certificate.value.subject_unique_id.some)
           => out.value.tbs_certificate.value.version \in {"V2", "V3"}
        /\ out.value.tbs_certificate.value.extensions.some
           => out.value.tbs_certificate.value.version = "V3"

\* the number of bytes the TLV at the head of w takes
TlvLen(w) == 1 + Len(LengthOctets(Drop(w, 1))) + LengthDenoted(Drop(w, 1))

\* w is one TLV with the identifier id and nothing else
IsOneTlv(w, id) == Len(w) >= 2 /\ w[1] = id /\ TlvLen(w) = Len(w)

\* w is exactly three TLVs with the identifiers id1, id2 and id3
IsThreeTlvs(w, id1, id2, id3) ==
    /\ Len(w) >= 2 /\ w[1] = id1 /\ TlvLen(w) + 2 <= Len(w)
    /\ [w2 \in Any |->
           /\ w2[1] = id2 /\ TlvLen(w2) + 2 <= Len(w2)
           /\ IsOneTlv(Drop(w2, TlvLen(w2)), id3)
       ][Drop(w, TlvLen(w))]

\* the error expect_end gives on the leftover w when w opens with a value that
\* decodes, and none when it does not
EndError(w) ==
    [p \in Any |->
        IF IsOk(p.res) THEN Some(Err([kind |-> "ExpectedEnd", actual |-> p.res.value.id]))
        ELSE None
    ][parse_one_type(w)]

\* w opens with an identifier octet, a length and as many bytes as the length says
OpensWithTlv(w) == Len(w) >= 2 /\ TlvLen(w) <= Len(w)

\* C19 as stated: Certificate::parse succeeds only on an input that is exactly one
\* outer SEQUENCE whose contents are exactly the three fields; bytes left after
\* signatureValue or after the outer SEQUENCE yield an error, and the error is
\* ExpectedEnd whenever the leftover is a well-formed TLV.
C19_NoTrailingDataAsStated ==
    pc = "parsed" =>
        /\ IsOk(out) =>
            /\ IsOneTlv(input, 48)
            /\ IsThreeTlvs(ContentsOf(input), 48, 48, 3)
        /\ [fields \in Any |->
               (IsOk(fields.res) /\ fields.reader # <<>>) =>
                   /\ IsErr(out)
                   /\ OpensWithTlv(fields.reader) => out.error.kind = "ExpectedEnd"
           ][certificate_fields(ContentsOf(input))]
        /\ (IsOk(certificate_body(ContentsOf(input))) /\ Len(input) > TlvLen(input)) =>
               /\ IsErr(out)
               /\ OpensWithTlv(Drop(input, TlvLen(input))) => out.error.kind = "ExpectedEnd"

\* C19, amended: Certificate::parse succeeds only on an input that is exactly one outer
\* SEQUENCE whose contents are exactly tbsCertificate, signatureAlgorithm and
\* signatureValue. When the three fields decode and bytes are left after
\* signatureValue, or the outer SEQUENCE decodes and bytes are left after it, the
\* result is an error: ExpectedEnd when the leftover opens with a value that decodes.
C19_NoTrailingData ==
    pc = "parsed" =>
        /\ IsOk(out) =>
            /\ IsOneTlv(input, 48)
            /\ IsThreeTlvs(ContentsOf(input), 48, 48, 3)
        /\ [fields \in Any |->
               (IsOk(fields.res) /\ fields.reader # <<>>) =>
                   /\ IsErr(out)
                   /\ EndError(fields.reader).some => out = EndError(fields.reader).value
           ][certificate_fields(ContentsOf(input))]
        /\ (IsOk(certificate_body(ContentsOf(input))) /\ Len(input) > TlvLen(input)) =>
               /\ IsErr(out)
               /\ EndError(Drop(input, TlvLen(input))).some
                  => out = EndError(Drop(input, TlvLen(input))).value

\* C19: a certificate whose three fields decode is refused with ExpectedEnd for the
\* NULL that follows its outer SEQUENCE
C19_Witness ==
    /\ pc = "parsed"
    /\ IsOk(certificate_body(ContentsOf(input)))
    /\ Drop(input, TlvLen(input)) = <<5, 0>>
    /\ out = Err([kind |-> "ExpectedEnd", actual |-> "Null"])

----------------------------------------------------------------------------
(* Names: Name::parse on the contents of an RDNSequence of up to MaxAvas     *)
(* attributes, grouped into sets in every way.                               *)

\* the most attributes a name holds
MaxAvas == 3

\* the attribute with the last arc n of 2.5.4.n and the value an element of the
\* type id holding the one byte c
Ava(n, id, c) == Tlv(48, Tlv(6, <<85, 4, n>>) \o Tlv(id, <<c>>))

\* the six attributes Name::parse recognizes with a PrintableString, commonName also
\* with a UTF8String, an IA5String and an INTEGER, and surname (2.5.4.4), which it
\* does not recognize, with a PrintableString and an INTEGER
Avas ==
    {Ava(n, 19, 65) : n \in {3, 6, 7, 8, 10, 11}}
    \cup {Ava(3, 12, 66), Ava(3, 22, 67), Ava(3, 2, 1), Ava(4, 19, 68), Ava(4, 2, 1)}

RECURSIVE Concat(_)
Concat(ss) == IF ss = <<>> THEN <<>> ELSE Head(ss) \o Concat(Tail(ss))

\* the names of at most n attributes: sequences of sets, a set a sequence of one
\* attribute or more
RECURSIVE NamesOf(_)
NamesOf(n) ==
    {<<>>} \cup
    UNION {{<<set>> \o rest : set \in [1..k -> Avas], rest \in NamesOf(n - k)} : k \in 1..n}

\* the contents of the RDNSequence of a name
EncodeName(name) == Concat([i \in 1..Len(name) |-> Tlv(49, Concat(name[i]))])

InitName ==
    /\ input \in {EncodeName(name) : name \in NamesOf(MaxAvas)}
    /\ reader = <<>>
    /\ last = Idle
    /\ pc = "idle"
    /\ out = <<>>
    /\ failed = FALSE

\* Name::new(input).parse()
NameParse ==
    /\ pc = "idle"
    /\ out' = Name_parse(Name_new(input).value)
    /\ pc' = "parsed"
    /\ last' = [op |-> "Name::parse", arg |-> "", window |-> input,
                res |-> IF IsOk(out') THEN "Ok" ELSE "Err"]
    /\ UNCHANGED <<input, reader, failed>>

NextName == NameParse

SpecName == InitName /\ [][NextName]_vars

----------------------------------------------------------------------------
(* Claims about Name::parse *)

\* the TLVs a window of TLVs is made of
RECURSIVE SplitTlvs(_)
SplitTlvs(w) ==
    IF w = <<>> THEN <<>> ELSE <<SubSeq(w, 1, TlvLen(w))>> \o SplitTlvs(Drop(w, TlvLen(w)))

\* the attributes of a name in the order of its bytes, whatever set they are in: of
\* each the arcs of its OID 2.5.4.n, and the identifier octet and the contents of
\* its value
Attributes(w) ==
    [avas \in Any |->
        [i \in 1..Len(avas) |->
            [ava \in Any |->
                [oid |-> <<2, 5, 4, ava[5]>>,
                 id |-> Drop(ava, TlvLen(ava))[1],
                 value |-> ContentsOf(Drop(ava, TlvLen(ava)))]
            ][ContentsOf(avas[i])]]
    ][[sets \in Any |-> Concat([s \in 1..Len(sets) |-> SplitTlvs(ContentsOf(sets[s]))])
      ][SplitTlvs(w)]]

KnownOids == {<<2, 5, 4, n>> : n \in {3, 6, 7, 8, 10, 11}}

\* the places where a known OID occurs for the second time or a later one
Repeats(attrs) ==
    {j \in 1..Len(attrs) :
        attrs[j].oid \in KnownOids /\ \E i \in 1..(j - 1) : attrs[i].oid = attrs[j].oid}

\* the places where a known OID comes with a value that is not an IA5String, a
\* PrintableString or a UTF8String
NotStrings(attrs) ==
    {i \in 1..Len(attrs) : attrs[i].oid \in KnownOids /\ attrs[i].id \notin {12, 19, 22}}

Least(S) == CHOOSE x \in S : \A y \in S : x <= y

\* the type the identifier octet of a value of Avas stands for
ValueType(id) ==
    CASE id = 2 -> "Integer" [] id = 12 -> "UTF8String" [] id = 19 -> "PrintableString"
      [] id = 22 -> "IA5String"

\* what the slot of a known OID holds when no known OID is repeated
Slot(attrs, oid) ==
    IF \E i \in 1..Len(attrs) : attrs[i].oid = oid
    THEN Some(attrs[CHOOSE i \in 1..Len(attrs) : attrs[i].oid = oid].value)
    ELSE None

----------------------------------------------------------------------------
(* The version field: parse_version on a parser that stands before the [0]  *)
(* tag, before the serial number, or at the end.                             *)

\* the most octets the INTEGER inside the [0] tag holds
MaxVersionOctets == 5

VersionBytes == {0, 1, 2, 3, 128, 255}

\* nothing, a serial number, and a [0] tag around every INTEGER of one octet and
\* more, with the serial number behind it and without
VersionWindows ==
    {<<>>, Tlv(2, <<1>>)}
    \cup {Tlv(160, Tlv(2, bytes)) \o rest :
            bytes \in SeqsUpTo(VersionBytes, MaxVersionOctets) \ {<<>>},
            rest \in {<<>>, Tlv(2, <<1>>)}}

InitVersion ==
    /\ reader \in VersionWindows
    /\ last = Idle
    /\ input = <<>>
    /\ pc = "idle"
    /\ out = <<>>
    /\ failed = FALSE

\* parse_version(&mut parser)
ParseVersion ==
    /\ pc = "idle"
    /\ pc' = "parsed"
    /\ LET r == parse_version(reader) IN
       /\ reader' = r.reader
       /\ last' = [op |-> "parse_version", arg |-> 0, window |-> reader, res |-> r.res]
    /\ UNCHANGED <<input, out, failed>>

NextVersion == ParseVersion

SpecVersion == InitVersion /\ [][NextVersion]_vars

\* the integer that one to four content octets denote in two's complement
SignedValue(bytes) ==
    (IF bytes[1] >= 128 THEN bytes[1] - 256 ELSE bytes[1]) * Pow256(Len(bytes) - 1)
    + BigEndian(Tail(bytes))

\* the version the claim gives for the integer v
VersionOf(v) ==
    CASE v = 0 -> Ok("V1") [] v = 1 -> Ok("V2") [] v = 2 -> Ok("V3")
      [] OTHER -> Err([kind |-> "BadEnumValue", name |-> "version", value |-> v])

\* C21: the version is V1 when the [0] tag is absent, and otherwise V1, V2, V3 for
\* the integer values 0, 1, 2; every other value that an i32 holds is rejected with
\* BadEnumValue("version", value), and an integer of more than four octets with
\* IntegerTooLarge.
C21_VersionDecoding ==
    last.op = "parse_version" =>
        IF last.window = <<>> \/ last.window[1] # 160 THEN last.res = Ok("V1")
        ELSE [bytes \in Any |->
                 IF Len(bytes) <= 4 THEN last.res = VersionOf(SignedValue(bytes))
                 ELSE IsErr(last.res) /\ last.res.error.kind = "IntegerTooLarge"
             ][ContentsOf(ContentsOf(last.window))]

----------------------------------------------------------------------------
(* Further claims about the schema parser and the length decoder *)

\* C22: get_optional::<T>() on a reader that is not empty returns None, without
\* error and without consuming, for every first identifier byte that does not
\* denote T, the bytes that denote no supported type included.
C22_OptionalSkipsOtherIds ==
    (/\ last.op = "get_optional"
     /\ last.window # <<>>
     /\ read_type(Identifier_from(last.window[1])) # last.arg)
    => (last.res = Ok(None) /\ reader = last.window)

\* the error parse_length gives for a long form whose first byte is f and whose
\* tail is t, with the error zero for a decoded value of 0
LongFormError(f, t, zero) ==
    LET n == f - 128 IN
    IF n = 0 THEN [kind |-> "UnsupportedIndefiniteLength"]
    ELSE IF n = 127 THEN [kind |-> "ReservedLengthValue"]
    ELSE IF n > 4 THEN [kind |-> "UnsupportedLengthByteCount", count |-> n]
    ELSE IF Len(t) < n THEN EndOfStream
    ELSE [value \in Any |->
             IF value = 0 THEN zero
             ELSE [kind |-> "BadLengthEncoding", value |-> value]
         ][BigEndian(SubSeq(t, 1, n))]

\* a long form that parse_length rejects: every one but a byte count of 1..4
\* whose bytes are there and give a value of 128 or more
RejectedLongForm(W) ==
    /\ Len(W) >= 1
    /\ W[1] >= 128
    /\ (W[1] \in 129..132 /\ Len(W) >= 1 + (W[1] - 128))
           => BigEndian(SubSeq(W, 2, 1 + (W[1] - 128))) < 128

TableBytes == {1, 2, 3, 4, 5, 6, 12, 19, 22, 23} \cup {32 + 16, 32 + 17} \cup (128 + 32)..(128 + 63)

\* the identifier an identifier byte denotes: class in bits 8-7, P/C in bit 6,
\* tag number in bits 5-1
DecodedId(b) ==
    [class |-> <<"Universal", "Application", "ContextSpecific", "Private">>[b \div 64 + 1],
     pc |-> IF b % 64 >= 32 THEN "Constructed" ELSE "Primitive",
     tag |-> b % 32]

----------------------------------------------------------------------------
(* X.509 extensions (x509/ext.rs) *)

\* BasicConstraints::parse
BasicConstraints_parse(bytes) ==
    [parser \in Any |-> IF IsErr(parser) THEN parser ELSE
    [ca \in Any |-> IF IsErr(ca.res) THEN ca.res ELSE
    [constraint \in Any |-> IF IsErr(constraint.res) THEN constraint.res ELSE
        IF ~constraint.res.value.some THEN
            Ok([ca |-> ca.res.value, path_length_constraint |-> None])
        ELSE
        [value \in Any |->
            IF value.some THEN Ok([ca |-> ca.res.value, path_length_constraint |-> value])
            ELSE Err([kind |-> "IntegerTooLarge",
                      len |-> Len(constraint.res.value.value.bytes)])
        ][as_i32(constraint.res.value.value.bytes)]
    ][get_optional(ca.reader, "Integer")]
    ][get_optional_or_default(parser.value, "Boolean", FALSE)]
    ][unwrap_outer_sequence(bytes)]

\* ExtendedKeyUsagePurpose::try_from_id
try_from_id(oid) ==
    CASE oid.items = <<1, 3, 6, 1, 5, 5, 7, 3, 1>> -> Some("ServerAuth")
      [] oid.items = <<1, 3, 6, 1, 5, 5, 7, 3, 2>> -> Some("ClientAuth")
      [] oid.items = <<1, 3, 6, 1, 5, 5, 7, 3, 3>> -> Some("CodeSigning")
      [] oid.items = <<1, 3, 6, 1, 5, 5, 7, 3, 4>> -> Some("EmailProtection")
      [] oid.items = <<1, 3, 6, 1, 5, 5, 7, 3, 8>> -> Some("TimeStamping")
      [] oid.items = <<1, 3, 6, 1, 5, 5, 7, 3, 9>> -> Some("OCSPSigning")
      [] OTHER -> None

\* the while loop of ExtendedKeyUsage::parse
RECURSIVE extended_key_usage_loop(_, _)
extended_key_usage_loop(parser, purposes) ==
    [oid \in Any |-> IF IsErr(oid.res) THEN oid.res ELSE
        IF ~oid.res.value.some THEN Ok([ext_key_usages |-> purposes])
        ELSE
        [purpose \in Any |->
            IF purpose.some THEN
                extended_key_usage_loop(oid.reader, Append(purposes, purpose.value))
            ELSE Err([kind |-> "UnexpectedOid", oid |-> oid.res.value.value])
        ][try_from_id(oid.res.value.value)]
    ][expect_or_end(parser, "ObjectIdentifier")]

\* ExtendedKeyUsage::parse
ExtendedKeyUsage_parse(bytes) ==
    [parser \in Any |->
        IF IsErr(parser) THEN parser ELSE extended_key_usage_loop(parser.value, <<>>)
    ][unwrap_outer_sequence(bytes)]

\* Parser::parse_implicit::<T>: the rest of the parser taken as the value bytes
\* of a T
parse_implicit(parser, T) ==
    [asn \in Any |-> IF IsErr(asn) THEN asn ELSE Ok(get_value(asn.value))
    ][parse_contents(T, Identifier_from(0), parser)]

\* the match of SubjectAlternativeName::parse on the tag of an entry
general_name(tag) ==
    [name \in Any |->
        IF name.type = "" THEN Err([kind |-> "UnexpectedTag", tag |-> tag.value])
        ELSE [value \in Any |->
                 IF IsErr(value) THEN value
                 ELSE Ok([name |-> name.name, value |-> value.value])
             ][parse_implicit(tag.contents, name.type)]
    ][CASE tag.value = 1 -> [name |-> "Rfc822Name", type |-> "IA5String"]
        [] tag.value = 2 -> [name |-> "DnsName", type |-> "IA5String"]
        [] tag.value = 6 -> [name |-> "UniformResourceIdentifier", type |-> "IA5String"]
        [] tag.value = 7 -> [name |-> "IpAddress", type |-> "OctetString"]
        [] tag.value = 8 -> [name |-> "RegisteredId", type |-> "ObjectIdentifier"]
        [] OTHER -> [name |-> "", type |-> ""]]

\* the while loop of SubjectAlternativeName::parse
RECURSIVE subject_alternative_name_loop(_, _)
subject_alternative_name_loop(parser, names) ==
    [tag \in Any |-> IF IsErr(tag.res) THEN tag.res ELSE
        IF ~tag.res.value.some THEN Ok([names |-> names])
        ELSE
        [name \in Any |->
            IF IsErr(name) THEN name
            ELSE subject_alternative_name_loop(tag.reader, Append(names, name.value))
        ][general_name(tag.res.value.value)]
    ][expect_or_end(parser, "ExplicitTag")]

\* SubjectAlternativeName::parse
SubjectAlternativeName_parse(bytes) ==
    [parser \in Any |->
        IF IsErr(parser) THEN parser ELSE subject_alternative_name_loop(parser.value, <<>>)
    ][unwrap_outer_sequence(bytes)]

\* ModbusRole::parse
ModbusRole_parse(bytes) ==
    [role \in Any |-> IF IsErr(role) THEN role ELSE Ok([role |-> role.value])
    ][parse_all(expect(bytes, "UTF8String"))]

\* a match that keeps the raw content of an unknown extension only when it
\* opens with a value the decoder reads
specific_extension_reading_unknown(oid, raw_content, overflow_checks) ==
    CASE oid.items = <<2, 5, 29, 14>> -> SubjectKeyIdentifier_parse(raw_content)
      [] oid.items = <<2, 5, 29, 15>> -> KeyUsage_parse(raw_content, overflow_checks)
      [] oid.items = <<2, 5, 29, 17>> -> SubjectAlternativeName_parse(raw_content)
      [] oid.items = <<2, 5, 29, 19>> -> BasicConstraints_parse(raw_content)
      [] oid.items = <<2, 5, 29, 37>> -> ExtendedKeyUsage_parse(raw_content)
      [] oid.items = <<1, 3, 6, 1, 4, 1, 50316, 802, 1>> -> ModbusRole_parse(raw_content)
      [] OTHER -> IF IsErr(expect_any(raw_content).res) THEN expect_any(raw_content).res
                  ELSE Ok([Unknown |-> raw_content])

\* the match of Extension::parse on the extension id; Unknown keeps the raw content
specific_extension(oid, raw_content, overflow_checks) ==
    CASE oid.items = <<2, 5, 29, 14>> -> SubjectKeyIdentifier_parse(raw_content)
      [] oid.items = <<2, 5, 29, 15>> -> KeyUsage_parse(raw_content, overflow_checks)
      [] oid.items = <<2, 5, 29, 17>> -> SubjectAlternativeName_parse(raw_content)
      [] oid.items = <<2, 5, 29, 19>> -> BasicConstraints_parse(raw_content)
      [] oid.items = <<2, 5, 29, 37>> -> ExtendedKeyUsage_parse(raw_content)
      [] oid.items = <<1, 3, 6, 1, 4, 1, 50316, 802, 1>> -> ModbusRole_parse(raw_content)
      [] OTHER -> Ok([Unknown |-> raw_content])

\* the closure of Extension::parse; a panic of the content parser ends it
extension_fields(parser, overflow_checks) ==
    [oid \in Any |-> IF IsErr(oid.res) THEN oid ELSE
    [is_critical \in Any |-> IF IsErr(is_critical.res) THEN is_critical ELSE
    [raw_content \in Any |-> IF IsErr(raw_content.res) THEN raw_content ELSE
    [content \in Any |->
        IF ~IsOk(content) THEN [res |-> content, reader |-> raw_content.reader]
        ELSE [res |-> Ok([extn_id |-> oid.res.value,
                          critical |-> is_critical.res.value,
                          content |-> content.value]),
              reader |-> raw_content.reader]
    ][specific_extension(oid.res.value, raw_content.res.value, overflow_checks)]
    ][expect(is_critical.reader, "OctetString")]
    ][get_optional_or_default(oid.reader, "Boolean", FALSE)]
    ][expect(parser, "ObjectIdentifier")]

\* Extension::parse
Extension_parse(bytes, overflow_checks) ==
    [fields \in Any |->
        IF IsPanic(fields.res) THEN fields.res ELSE parse_all(fields)
    ][extension_fields(bytes, overflow_checks)]

\* the while loop of Extensions::parse
RECURSIVE extensions_loop(_, _, _)
extensions_loop(parser, extensions, overflow_checks) ==
    [seq \in Any |-> IF IsErr(seq.res) THEN seq.res ELSE
        IF ~seq.res.value.some THEN Ok(extensions)
        ELSE
        [extension \in Any |->
            IF ~IsOk(extension) THEN extension
            ELSE extensions_loop(seq.reader, Append(extensions, extension.value),
                                 overflow_checks)
        ][Extension_parse(seq.res.value.value, overflow_checks)]
    ][expect_or_end(parser, "Sequence")]

\* Extensions::parse
Extensions_parse(self, overflow_checks) ==
    [parser \in Any |->
        IF IsErr(parser) THEN parser
        ELSE extensions_loop(parser.value, <<>>, overflow_checks)
    ][unwrap_outer_sequence(self.raw_content)]

----------------------------------------------------------------------------
(* The extension decoders on their own: each is called on the bytes of      *)
(* input, as Extension::parse calls them on the extnValue and as            *)
(* TBSCertificate::parse calls AlgorithmIdentifier::parse on the contents   *)
(* of a SEQUENCE.                                                           *)

\* the most extensions in a list
MaxExtensions == 2

\* extension ids: 1.2.3 and 2.5.29.35, which the decoder does not know, the five
\* of 2.5.29 it knows and 1.3.6.1.4.1.50316.802.1
OidUnknown == {<<42, 3>>, <<85, 29, 35>>}
OidKnown ==
    {<<85, 29, 14>>, <<85, 29, 15>>, <<85, 29, 17>>, <<85, 29, 19>>, <<85, 29, 37>>,
     <<43, 6, 1, 4, 1, 131, 137, 12, 134, 34, 1>>}

\* the critical field: absent, TRUE, FALSE, a BOOLEAN of value 1, an INTEGER
CriticalOpts == {<<>>, <<1, 1, 255>>, <<1, 1, 0>>, <<1, 1, 1>>, <<2, 1, 1>>}

\* one value of each extension type
ValueOpts ==
    {Tlv(4, <<1, 2>>), Tlv(3, <<7, 128>>), Tlv(12, <<65>>), Tlv(48, <<1, 1, 255>>),
     Tlv(48, <<1, 1, 255, 2, 1, 3>>), Tlv(48, <<2, 1, 0>>), Tlv(48, <<2, 5, 1, 2, 3, 4, 5>>),
     Tlv(48, Tlv(6, <<43, 6, 1, 5, 5, 7, 3, 1>>)),
     Tlv(48, Tlv(6, <<43, 6, 1, 5, 5, 7, 3, 1>>) \o Tlv(6, <<43, 6, 1, 5, 5, 7, 3, 9>>)),
     Tlv(48, Tlv(6, <<42, 3>>)),
     Tlv(48, Tlv(162, <<97, 46, 98>>)), Tlv(48, Tlv(167, <<10, 0, 0, 1>>) \o Tlv(168, <<42, 3>>)),
     Tlv(48, Tlv(160, <<1>>))}

\* what an extnValue holds: nothing, an empty SEQUENCE or SET, bytes that are no
\* TLV, a value, a value with a NULL behind it, and a SEQUENCE with a NULL in it
\* behind its fields
ExtValues ==
    {<<>>, <<48, 0>>, <<49, 0>>, <<48, 0, 5, 0>>, <<1, 2, 3>>, <<255>>, <<48>>, <<4, 2, 1>>,
     Tlv(48, <<5, 0>>), Tlv(48, <<1, 1, 255, 5, 0>>), Tlv(48, <<2, 1, 0, 5, 0>>), Tlv(4, Fill(130))}
    \cup ValueOpts \cup {v \o <<5, 0>> : v \in ValueOpts}

\* the contents of an Extension
ExtensionContents ==
    {Tlv(6, oid) \o critical \o Tlv(4, value) \o rest :
        oid \in OidUnknown \cup OidKnown, critical \in CriticalOpts, value \in ExtValues,
        rest \in {<<>>, <<5, 0>>}}
    \cup {Tlv(6, <<42, 3>>), Tlv(6, <<42, 3>>) \o <<1, 1, 255>>, Tlv(6, <<>>) \o Tlv(4, <<1>>),
          Tlv(4, <<1>>)}

\* the contents of an AlgorithmIdentifier: the algorithm, and behind it nothing,
\* parameters, parameters and more, or bytes that are no TLV
AlgorithmContents ==
    {Tlv(id, <<42, 3>>) \o rest :
        id \in {6, 4},
        rest \in {<<>>, <<5, 0>>, <<5, 0, 5, 0>>, Tlv(48, <<2, 1, 1>>), Tlv(48, <<2, 1, 1>>) \o <<2, 1, 1>>,
                  <<5>>, <<7, 0>>, <<5, 0, 7, 0>>}}

\* a few Extensions as TLVs, and the lists of up to n of them with nothing, half
\* an element or a NULL behind
ListedExtensions ==
    {Tlv(48, Tlv(6, <<42, 3>>) \o Tlv(4, <<1, 2>>)),
     Tlv(48, Tlv(6, <<85, 29, 19>>) \o <<1, 1, 255>> \o Tlv(4, Tlv(48, <<1, 1, 255>>))),
     Tlv(48, Tlv(6, <<85, 29, 15>>) \o Tlv(4, Tlv(3, <<7, 128>>))),
     Tlv(48, Tlv(6, <<85, 29, 19>>) \o Tlv(4, <<48, 0>>))}

ExtensionLists(n) ==
    {Tlv(48, Concat(list) \o rest) :
        list \in SeqsUpTo(ListedExtensions, n),
        rest \in {<<>>, <<48>>, <<48, 4, 6, 2>>, <<48, 129>>, <<5, 0>>}}

InitExt ==
    /\ input \in ExtValues \cup ExtensionContents \cup AlgorithmContents
                 \cup ExtensionLists(MaxExtensions)
    /\ reader = <<>>
    /\ last = Idle
    /\ pc = "idle"
    /\ out = <<>>
    /\ failed = FALSE

\* parse_one_type(&mut Reader::new(input))
ParseOneTypeOfInput ==
    /\ pc' = "done"
    /\ Accessed("parse_one_type", "", parse_one_type(input).res)

\* Parser::unwrap_outer_sequence(input)
UnwrapOuterSequence ==
    /\ pc' = "done"
    /\ Accessed("unwrap_outer_sequence", "", unwrap_outer_sequence(input))

\* Parser::unwrap_outer_set(input)
UnwrapOuterSet ==
    /\ pc' = "done"
    /\ Accessed("unwrap_outer_set", "", unwrap_outer_set(input))

\* BasicConstraints::parse(input)
BasicConstraintsParse ==
    /\ pc' = "done"
    /\ Accessed("BasicConstraints::parse", "", BasicConstraints_parse(input))

\* ExtendedKeyUsage::parse(input)
ExtendedKeyUsageParse ==
    /\ pc' = "done"
    /\ Accessed("ExtendedKeyUsage::parse", "", ExtendedKeyUsage_parse(input))

\* SubjectAlternativeName::parse(input)
SubjectAlternativeNameParse ==
    /\ pc' = "done"
    /\ Accessed("SubjectAlternativeName::parse", "", SubjectAlternativeName_parse(input))

\* ModbusRole::parse(input)
ModbusRoleParse ==
    /\ pc' = "done"
    /\ Accessed("ModbusRole::parse", "", ModbusRole_parse(input))

\* AlgorithmIdentifier::parse(input)
AlgorithmIdentifierParse ==
    /\ pc' = "done"
    /\ Accessed("AlgorithmIdentifier::parse", "", AlgorithmIdentifier_parse(input))

\* Extension::parse(input), in a build with and in one without overflow checks
ExtensionParse ==
    /\ pc' = "done"
    /\ \E overflow_checks \in BOOLEAN :
          Accessed("Extension::parse", overflow_checks, Extension_parse(input, overflow_checks))

\* Extensions::new(input).parse(), in a build with and in one without overflow checks
ExtensionsParse ==
    /\ pc' = "done"
    /\ \E overflow_checks \in BOOLEAN :
          Accessed("Extensions::parse", overflow_checks,
                   Extensions_parse(Extensions_new(input), overflow_checks))

NextExt ==
    \/ ParseOneTypeOfInput
    \/ UnwrapOuterSequence
    \/ UnwrapOuterSet
    \/ SubjectKeyIdentifierParse
    \/ KeyUsageParse
    \/ BasicConstraintsParse
    \/ ExtendedKeyUsageParse
    \/ SubjectAlternativeNameParse
    \/ ModbusRoleParse
    \/ AlgorithmIdentifierParse
    \/ ExtensionParse
    \/ ExtensionsParse

SpecExt == InitExt /\ [][NextExt]_vars

----------------------------------------------------------------------------
(* Claims about the extension decoders *)

\* the extension ids whose value is decoded as a SEQUENCE
SequenceValued == {<<85, 29, 17>>, <<85, 29, 19>>, <<85, 29, 37>>}

\* an Extension of a SEQUENCE-valued type whose extnValue opens with an empty
\* SEQUENCE
HoldsEmptySequence(w) ==
    \E oid \in SequenceValued, critical \in {<<>>, <<1, 1, 255>>, <<1, 1, 0>>},
       rest \in {<<>>, <<5, 0>>} :
        w = Tlv(6, oid) \o critical \o Tlv(4, <<48, 0>> \o rest)

\* C25: a SEQUENCE or SET with zero-length contents is rejected by the base
\* decoder, and so by unwrap_outer_sequence, unwrap_outer_set and every decoder
\* that opens with one of them or with expect; an extension whose value is an
\* empty SEQUENCE is rejected too.
C25_EmptyContainersRejected ==
    /\ (last.op # "new" /\ Len(last.window) >= 2 /\ last.window[2] = 0) =>
          /\ last.window[1] = 48 => last.res = Err([kind |-> "EmptySequence"])
          /\ last.window[1] = 49 => last.res = Err([kind |-> "EmptySet"])
    /\ (last.op = "Extension::parse" /\ HoldsEmptySequence(last.window)) =>
          last.res = Err([kind |-> "EmptySequence"])

\* a basicConstraints extension whose value is an empty SEQUENCE, refused
C25_Witness ==
    /\ last.op = "Extension::parse"
    /\ last.window = Tlv(6, <<85, 29, 19>>) \o Tlv(4, <<48, 0>>)
    /\ last.res = Err([kind |-> "EmptySequence"])

----------------------------------------------------------------------------
(* TBSCertificate::parse on its own, called on the fields of a              *)
(* TBSCertificate in their order or with two neighbours exchanged, and      *)
(* behind them the optional explicit tags in every order.                   *)

\* the most elements behind subjectPublicKeyInfo
MaxTrailing == 4

\* version 3
VersionField == Tlv(160, Tlv(2, <<2>>))

\* serialNumber, signature, issuer, validity, subject, subjectPublicKeyInfo
TbsFields ==
    <<Tlv(2, <<1>>),
      Tlv(48, Tlv(6, <<42, 3>>)),
      Tlv(48, Tlv(49, Tlv(48, Tlv(6, <<85, 4, 3>>) \o Tlv(19, <<66>>)))),
      Tlv(48, Tlv(23, Time2025) \o Tlv(23, Time2030)),
      Tlv(48, Tlv(49, Tlv(48, Tlv(6, <<85, 4, 3>>) \o Tlv(19, <<65>>)))),
      Tlv(48, Tlv(48, Tlv(6, <<42, 3>>)) \o Tlv(3, <<0, 255>>))>>

\* fields with the neighbours i and i + 1 exchanged
Exchanged(fields, i) ==
    [k \in 1..Len(fields) |->
        IF k = i THEN fields[i + 1] ELSE IF k = i + 1 THEN fields[i] ELSE fields[k]]

\* issuerUniqueID [1], subjectUniqueID [2], extensions [3]
TrailingField(n) ==
    CASE n = 1 -> Tlv(161, Tlv(3, <<0, 1>>))
      [] n = 2 -> Tlv(162, Tlv(3, <<0, 2>>))
      [] n = 3 -> Tlv(163, Tlv(48, Tlv(48, Tlv(6, <<42, 3>>) \o Tlv(4, <<1>>))))

TbsInputs(n) ==
    {Concat(fields) \o Concat([i \in 1..Len(tags) |-> TrailingField(tags[i])]) :
        fields \in {<<VersionField>> \o TbsFields, TbsFields}
                   \cup {Exchanged(<<VersionField>> \o TbsFields, i) : i \in 1..Len(TbsFields)},
        tags \in SeqsUpTo(1..3, n)}

InitTbs ==
    /\ input \in TbsInputs(MaxTrailing)
    /\ reader = <<>>
    /\ last = Idle
    /\ pc = "idle"
    /\ out = <<>>
    /\ failed = FALSE

\* TBSCertificate::parse(input)
TbsCertificateParse ==
    /\ pc = "idle"
    /\ pc' = "parsed"
    /\ last' = [op |-> "TBSCertificate::parse", arg |-> "", window |-> input,
                res |-> TBSCertificate_parse(input)]
    /\ UNCHANGED <<input, reader, out, failed>>

NextTbs == TbsCertificateParse

SpecTbs == InitTbs /\ [][NextTbs]_vars

\* the identifier octets of the elements of w from the k-th on
IdsFrom(w, k) ==
    [els \in Any |-> [i \in 1..(Len(els) - k + 1) |-> els[i + k - 1][1]]][SplitTlvs(w)]

\* the optional explicit tags in ascending order, each at most once
Ascending(ids) ==
    /\ \A i \in 1..Len(ids) : ids[i] \in {161, 162, 163}
    /\ \A i \in 1..(Len(ids) - 1) : ids[i] < ids[i + 1]

\* the fields in their order, with or without the version
InOrder(els) ==
    \/ Len(els) >= 7 /\ SubSeq(els, 1, 7) = <<VersionField>> \o TbsFields
    \/ Len(els) >= 6 /\ SubSeq(els, 1, 6) = TbsFields

\* the elements behind subjectPublicKeyInfo
Behind(els) == SubSeq(els, IF els[1][1] = 160 THEN 8 ELSE 7, Len(els))

\* C26: TBSCertificate::parse consumes the fields in the order version,
\* serialNumber, signature, issuer, validity, subject, subjectPublicKeyInfo, [1],
\* [2], [3]: it succeeds exactly when the fields are in that order with the
\* optional explicit tags ascending and each at most once, every field of the
\* result is then the element of its position, and trailing elements that are
\* repeated or out of order are rejected by the final expect_end.
C26_FieldOrder ==
    last.op = "TBSCertificate::parse" =>
    [els \in Any |->
    [ids \in Any |->
        /\ IsOk(last.res) <=> (InOrder(els) /\ Ascending(ids))
        /\ (InOrder(els) /\ ~Ascending(ids)) =>
              last.res = Err([kind |-> "ExpectedEnd", actual |-> "ExplicitTag"])
        /\ IsOk(last.res) =>
              [tbs \in Any |->
              [k \in Any |->
                  /\ tbs.version = (IF k = 1 THEN "V3" ELSE "V1")
                  /\ tbs.serial_number.bytes = ContentsOf(els[k + 1])
                  /\ Ok(tbs.signature) = AlgorithmIdentifier_parse(ContentsOf(els[k + 2]))
                  /\ tbs.issuer.inner = ContentsOf(els[k + 3])
                  /\ Ok(tbs.validity) = Validity_parse(ContentsOf(els[k + 4]))
                  /\ tbs.subject.inner = ContentsOf(els[k + 5])
                  /\ Ok(tbs.subject_public_key_info)
                        = SubjectPublicKeyInfo_parse(ContentsOf(els[k + 6]))
                  /\ tbs.issuer_unique_id.some <=> (\E i \in 1..Len(ids) : ids[i] = 161)
                  /\ tbs.subject_unique_id.some <=> (\E i \in 1..Len(ids) : ids[i] = 162)
                  /\ tbs.extensions.some <=> (\E i \in 1..Len(ids) : ids[i] = 163)
              ][IF els[1][1] = 160 THEN 1 ELSE 0]
              ][last.res.value.value]
    ][[i \in 1..Len(Behind(els)) |-> Behind(els)[i][1]]]
    ][SplitTlvs(last.window)]

\* extensions [3] in front of issuerUniqueID [1], refused at the end
C26_Witness ==
    /\ last.op = "TBSCertificate::parse"
    /\ last.window = Concat(<<VersionField>> \o TbsFields) \o TrailingField(3) \o TrailingField(1)
    /\ last.res = Err([kind |-> "ExpectedEnd", actual |-> "ExplicitTag"])

\* the arcs of the extension ids the inputs hold that the decoder does not know
UnknownArcs(oid) == IF oid = <<42, 3>> THEN <<1, 2, 3>> ELSE <<2, 5, 29, 35>>

\* C27: an Extension that is an OID the decoder does not recognize, an optional
\* BOOLEAN and an OCTET STRING parses whatever the OCTET STRING holds: the result
\* is Unknown with exactly the extnValue octets, and critical is the BOOLEAN if it
\* is there and false if not.
C27_UnknownExtensionKept ==
    last.op = "Extension::parse" =>
        \A oid \in OidUnknown, critical \in {<<>>, <<1, 1, 255>>, <<1, 1, 0>>},
           value \in ExtValues :
            last.window = Tlv(6, oid) \o critical \o Tlv(4, value) =>
                last.res = Ok([extn_id |-> [items |-> UnknownArcs(oid)],
                               critical |-> (critical = <<1, 1, 255>>),
                               content |-> [Unknown |-> value]])

\* a critical extension 2.5.29.35 kept whose value is no TLV
C27_Witness ==
    /\ last.op = "Extension::parse"
    /\ last.window = Tlv(6, <<85, 29, 35>>) \o <<1, 1, 255>> \o Tlv(4, <<1, 2, 3>>)
    /\ IsOk(last.res)
    /\ last.res.value.critical
    /\ last.res.value.content = [Unknown |-> <<1, 2, 3>>]

\* C28: expect_or_end::<T>() returns None only when the reader was empty at the
\* call; a truncated or malformed trailing element is an error, never the end.
C28_NoneOnlyAtEnd ==
    (last.op = "expect_or_end" /\ last.res = Ok(None)) => last.window = <<>>

\* w without its first element when that has the identifier octet id, w otherwise
SkipOptional(w, id) == IF w # <<>> /\ w[1] = id THEN Drop(w, TlvLen(w)) ELSE w

\* C29: AlgorithmIdentifier::parse, SubjectKeyIdentifier::parse, KeyUsage::parse
\* and BasicConstraints::parse accept their input only when they have consumed all
\* of it: an OID and at most one value behind it, one OCTET STRING, one BIT STRING,
\* one SEQUENCE of at most a BOOLEAN and an INTEGER.
C29_SubDecodersConsumeAll ==
    (last.op # "new" /\ IsOk(last.res)) =>
        /\ last.op = "AlgorithmIdentifier::parse" =>
              [rest \in Any |-> rest = <<>> \/ TlvLen(rest) = Len(rest)
              ][Drop(last.window, TlvLen(last.window))]
        /\ last.op \in {"SubjectKeyIdentifier::parse", "KeyUsage::parse"} =>
              TlvLen(last.window) = Len(last.window)
        /\ last.op = "BasicConstraints::parse" =>
              /\ TlvLen(last.window) = Len(last.window)
              /\ SkipOptional(SkipOptional(ContentsOf(last.window), 1), 2) = <<>>

----------------------------------------------------------------------------
(* A further claim about certificates *)

\* an instant as seconds since the UNIX epoch
SecondsSinceEpoch(t) == t.minutes * 60 + t.seconds

\* C30: Validity::is_valid(now) is true exactly when not_before <= now <=
\* not_after as seconds since the epoch, both bounds included, and so false for
\* every now when not_before is after not_after.
C30_IsValidInclusive ==
    (last.op = "is_valid" /\ pc = "parsed" /\ IsOk(out)) =>
        [validity \in Any |->
            /\ last.res = (/\ SecondsSinceEpoch(validity.not_before) <= SecondsSinceEpoch(last.arg)
                           /\ SecondsSinceEpoch(last.arg) <= SecondsSinceEpoch(validity.not_after))
            /\ SecondsSinceEpoch(validity.not_before) > SecondsSinceEpoch(validity.not_after)
                  => ~last.res
        ][out.value.tbs_certificate.value.validity]

\* is_valid has answered true for the instant not_after itself
C30_Witness ==
    /\ last.op = "is_valid"
    /\ IsOk(out)
    /\ last.arg = out.value.tbs_certificate.value.validity.not_after
    /\ last.arg # out.value.tbs_certificate.value.validity.not_before
    /\ last.res = TRUE
====
